---- MODULE Spec2Model ----
(***************************************************************************)
(* ThermoHub8: the joystick input state machine (src/esp32/Joystick.cpp)   *)
(* and the display-scroll controller it drives (src/src/thermohub8.cpp).   *)
(*                                                                         *)
(* Time is the value of millis(), an unsigned 32-bit counter, held as two   *)
(* 16-bit halves <<high, low>> so that its full width is kept.  One Loop   *)
(* step is one iteration of loop(): joystick.update() reads the clock and  *)
(* the pins, runs the button section, then the position section, and the   *)
(* iteration ends with a delay during which the clock advances.            *)
(***************************************************************************)
EXTENDS Integers, Sequences, FiniteSets, TLC

VARIABLES
    pc,                 \* "boot" before setup() has run, "loop" afterwards,
                        \* "update" while loop() is inside joystick.update()
    now,                \* millis()
    _minVal, _maxVal, _centerVal, _deadzone, _invertX, _invertY, _debugMode,
    _currentX, _currentY, _currentSwitch, _currentPosition,
    _previousPosition, _previousSwitch,
    _callback,          \* the six callback slots, by event
    _lastSwitchTime, _lastPositionTime,
    displayOffset, maxDisplayOffset,
    fired,              \* observation: callbacks invoked by the latest update()
    poll,               \* observation: inputs and pre-state of the latest update()
    history,            \* observation: clock values of the last two confirmed
                        \* transitions of each channel
    drops,              \* observation: differing readings dropped on each channel
                        \* since its last confirmed transition
    sensorTemperatures, \* readings in tenths of a degree, by sensor index
    sensorNames,        \* names, by sensor index
    preferences,        \* the stored names, by sensor index of the key
    lastModbusUpdate,   \* millis() of the last sensor read
    lcd,                \* what the LCD shows
    op,                 \* observation: the operation that ran last
    trace,              \* observation: the polls so far, recorded by SpecTrace
    currentIndex,       \* code.cpp: the first sensor on the LCD page
    lastDebounce,       \* code.cpp: millis() of the last accepted button press
    press               \* observation: inputs and pre-state of the latest
                        \* handleButtons()

vars == <<pc, now, _minVal, _maxVal, _centerVal, _deadzone, _invertX, _invertY,
          _debugMode,
          _currentX, _currentY, _currentSwitch, _currentPosition,
          _previousPosition, _previousSwitch, _callback,
          _lastSwitchTime, _lastPositionTime,
          displayOffset, maxDisplayOffset, fired, poll, history, drops,
          sensorTemperatures, sensorNames, preferences, lastModbusUpdate,
          lcd, op, trace, currentIndex, lastDebounce, press>>

----------------------------------------------------------------------------
(* Program constants *)

NUM_SENSORS == 8
LCD_ROWS == 4
JOY_MIN_VAL == 0
JOY_MAX_VAL == 4095
JOY_CENTER_VAL == 2000
JOY_DEADZONE == 500
_debounceDelay == 50
SplashDelay == 2000
ReadyDelay == 1000
MenuItems == 4
MODBUS_UPDATE_INTERVAL == 1000
MAX_SENSOR_NAME_LENGTH == 16
\* the error value -999.9 of readModbusFloat(), in tenths of a degree
ErrorTemp == -9999

\* an unsigned long is two halves of Half values each
Half == 65536

JOY_CENTER == "Center"
JOY_UP == "Up"
JOY_DOWN == "Down"
JOY_LEFT == "Left"
JOY_RIGHT == "Right"
JoystickPosition == {JOY_CENTER, JOY_UP, JOY_DOWN, JOY_LEFT, JOY_RIGHT}

Events == JoystickPosition \cup {"Switch"}
nullptr == "nullptr"

----------------------------------------------------------------------------
(* Bounds of the model *)

\* elapsed milliseconds after setup() up to which Spec polls
MaxElapsed == 110
\* elapsed milliseconds after setup() up to which SpecScroll polls
MaxScrollElapsed == 1020

\* durations of one loop() iteration explored by Spec: 25 + 25 is an elapsed
\* time of exactly the debounce delay, 25 + 26 is one more
Steps == {25, 26}
\* duration of one loop() iteration explored by SpecScroll
ScrollSteps == {60}
\* button readings of SpecScroll: the button stays up
ScrollSwitch == {FALSE}

\* raw ADC samples (x, y): with the firmware's calibration and inverted Y
\* they classify to Center, Right, Left, Up and Down
RawSamples == {<<2000, 2095>>, <<2600, 2095>>, <<1400, 2095>>,
               <<2000, 1000>>, <<2000, 3500>>}

\* number of polls SpecTrace records
MaxTrace == 3
\* durations of one loop() iteration explored by SpecTrace
TraceSteps == {10, 60}
\* raw ADC samples of SpecTrace: Center, Right and Left
TraceSamples == {<<2000, 2000>>, <<2600, 2000>>, <<1400, 2000>>}

\* SpecClassify polls while the clock is at most this far past setup()
MaxClassifyElapsed == 60
\* duration of one loop() iteration in SpecClassify
ClassifySteps == {60}
\* raw ADC values of either axis in SpecClassify: on, inside and outside the
\* deadzone boundaries, and equal distances from the center on both axes
ClassifyValues == {1500, 1501, 1700, 1795, 2000, 2300, 2395, 2499, 2500}
\* arguments of setThresholds() in SpecClassify: the firmware's range and
\* center with three deadzones, the constructor's defaults, and a deadzone
\* wider than the range
Calibrations == {<<0, 4095, 2000, 0>>, <<0, 4095, 2000, 200>>,
                 <<0, 4095, 2000, 500>>, <<1200, 4095, 2559, 300>>,
                 <<0, 4095, 2000, 2500>>}

\* SpecFirmware polls while the clock is at most this far past setup()
MaxFirmwareElapsed == 120
\* duration of one loop() iteration in SpecFirmware
FirmwareSteps == {60}
\* raw ADC samples of SpecFirmware: Center, Up and Down
FirmwareSamples == {<<2000, 2095>>, <<2000, 1000>>, <<2000, 3500>>}
\* arguments of setThresholds() in SpecFirmware: the firmware's values and
\* a smaller deadzone
FirmwareCalibrations == {<<0, 4095, 2000, 500>>, <<0, 4095, 2000, 200>>}
\* the "id" members of the request bodies of SpecFirmware
RequestIds == {-1, 0, NUM_SENSORS}
\* the "name" members of the request bodies of SpecFirmware: absent, empty,
\* short, and one character longer than a stored name can be
RequestNames ==
    {[present |-> FALSE, text |-> << >>],
     [present |-> TRUE, text |-> << >>],
     [present |-> TRUE, text |-> <<"A">>],
     [present |-> TRUE, text |-> [i \in 1..(MAX_SENSOR_NAME_LENGTH + 1) |-> "x"]]}

\* duration of one loop() iteration in SpecPure
PureSteps == {60}
\* raw ADC samples of SpecPure: Center and Right
PureSamples == {<<2000, 2000>>, <<2600, 2000>>}

\* number of registrations SpecRegister records
MaxRegistrations == 2
\* SpecRegister polls while the clock is at most this far past setup()
MaxRegisterElapsed == 120
\* duration of one loop() iteration in SpecRegister
RegisterSteps == {60}
\* raw ADC samples of SpecRegister: Center and Right
RegisterSamples == {<<2000, 2095>>, <<2600, 2095>>}
\* the callbacks SpecRegister registers: a scroll handler and none
RegisterHandlers == {"onJoystickDown", nullptr}

\* SpecTasks starts iterations of loop() while the clock is at most this far
\* past setup()
MaxTasksElapsed == 120
\* duration of one loop() iteration in SpecTasks
TasksSteps == {60}
\* raw ADC samples of SpecTasks: Center and Down
TasksSamples == {<<2000, 2095>>, <<2000, 3500>>}

\* the observation drops counts up to this many dropped readings
MaxDrops == 3
\* SpecLive takes short iterations while the clock is at most this far past
\* setup() or a quarter of its range later
MaxLiveElapsed == 60
\* duration of a short loop() iteration in SpecLive
LiveSteps == {30}
\* duration of an iteration of SpecLive that is held up for a quarter of the
\* range of millis(), so that the clock wraps within a run
LiveHolds == {16384 * Half}
\* raw ADC samples of SpecLive: Center, Right and Left
LiveSamples == {<<2000, 2095>>, <<2600, 2095>>, <<1400, 2095>>}

\* SpecButtons follows handleButtons() for this long after the start
MaxButtonsElapsed == 1300

\* time between two calls of handleButtons() in SpecButtons
ButtonsSteps == {50, 100}

\* SpecNames follows this many calls of saveSensorName()
MaxRenames == 3

\* the indices SpecNames calls saveSensorName() with: the first and the last
\* sensor and the two nearest invalid ones
RenameIds == {-1, 0, NUM_SENSORS - 1, NUM_SENSORS}

\* the names SpecNames calls saveSensorName() with: empty, short, and one
\* character longer than a stored name can be
RenameTexts ==
    {<< >>, <<"A">>, [k \in 1..(MAX_SENSOR_NAME_LENGTH + 1) |-> "x"]}

\* time after the wrap of millis() over which SpecWrap follows loop()
MaxWrapElapsed == 110

\* duration of an iteration of SpecWrap that is held up: four of them after
\* setup() bring millis() to 32 ms before it wraps
WrapHolds == {16384 * Half - 758}

\* raw ADC sample of the held-up iterations of SpecWrap: Center
WrapHoldSamples == {<<2000, 2095>>}

\* raw ADC samples of SpecWrap around the wrap: Center, Right and Left
WrapSamples == {<<2000, 2095>>, <<2600, 2095>>, <<1400, 2095>>}

\* the sensor readings of Spec and SpecScroll, in tenths of a degree: sensor
\* 3 fails, the others answer
Readings == [i \in 0..7 |-> IF i = 3 THEN -9999 ELSE 200 + i]

----------------------------------------------------------------------------
(* Arithmetic *)

abs(v) == IF v < 0 THEN -v ELSE v

max(a, b) == IF a > b THEN a ELSE b

\* the unsigned long of a small number n
U32(n) == <<(n \div Half) % Half, n % Half>>

\* unsigned long addition of a small number d
Add32(a, d) == <<(a[1] + ((a[2] + d) \div Half)) % Half, (a[2] + d) % Half>>

\* unsigned long subtraction a - b, with the borrow of the low half
Sub32(a, b) ==
    <<(a[1] - b[1] - (IF a[2] < b[2] THEN 1 ELSE 0)) % Half, (a[2] - b[2]) % Half>>

\* unsigned comparison a > k with a small number k
Gt32(a, k) == a[1] > 0 \/ a[2] > k

\* unsigned comparison a >= k with a small number k
Ge32(a, k) == a[1] > 0 \/ a[2] >= k

----------------------------------------------------------------------------
(* Position Classifier: Joystick::calculatePosition *)

\* the inversion as the mirror image within minVal..maxVal
InvertMirrored(v, minVal, maxVal) == maxVal - (v - minVal)

\* reflection of a raw value around the calibrated range
Invert(v, minVal, maxVal) == maxVal - (v - minVal) + minVal

\* calculatePosition() with the sign test of the X axis the wrong way round
calculatePositionMirrored(cx, cy, minVal, maxVal, centerVal, deadzone, invX, invY) ==
    LET x == IF invX THEN Invert(cx, minVal, maxVal) ELSE cx
        y == IF invY THEN Invert(cy, minVal, maxVal) ELSE cy
        deltaX == x - centerVal
        deltaY == y - centerVal
    IN  IF abs(deltaX) < deadzone /\ abs(deltaY) < deadzone
        THEN JOY_CENTER
        ELSE IF abs(deltaX) > abs(deltaY)
             THEN (IF deltaX > 0 THEN JOY_LEFT ELSE JOY_RIGHT)
             ELSE (IF deltaY > 0 THEN JOY_UP ELSE JOY_DOWN)

\* calculatePosition() with a deadzone that includes its boundary
calculatePositionInclusive(cx, cy, minVal, maxVal, centerVal, deadzone, invX, invY) ==
    LET x == IF invX THEN Invert(cx, minVal, maxVal) ELSE cx
        y == IF invY THEN Invert(cy, minVal, maxVal) ELSE cy
        deltaX == x - centerVal
        deltaY == y - centerVal
    IN  IF abs(deltaX) <= deadzone /\ abs(deltaY) <= deadzone
        THEN JOY_CENTER
        ELSE IF abs(deltaX) > abs(deltaY)
             THEN (IF deltaX > 0 THEN JOY_RIGHT ELSE JOY_LEFT)
             ELSE (IF deltaY > 0 THEN JOY_UP ELSE JOY_DOWN)

\* calculatePosition() with equal distances resolved to the X axis
calculatePositionTieX(cx, cy, minVal, maxVal, centerVal, deadzone, invX, invY) ==
    LET x == IF invX THEN Invert(cx, minVal, maxVal) ELSE cx
        y == IF invY THEN Invert(cy, minVal, maxVal) ELSE cy
        deltaX == x - centerVal
        deltaY == y - centerVal
    IN  IF abs(deltaX) < deadzone /\ abs(deltaY) < deadzone
        THEN JOY_CENTER
        ELSE IF abs(deltaX) >= abs(deltaY)
             THEN (IF deltaX > 0 THEN JOY_RIGHT ELSE JOY_LEFT)
             ELSE (IF deltaY > 0 THEN JOY_UP ELSE JOY_DOWN)

\* calculatePosition() with the sign test of the Y axis the wrong way round
calculatePositionFlippedY(cx, cy, minVal, maxVal, centerVal, deadzone, invX, invY) ==
    LET x == IF invX THEN Invert(cx, minVal, maxVal) ELSE cx
        y == IF invY THEN Invert(cy, minVal, maxVal) ELSE cy
        deltaX == x - centerVal
        deltaY == y - centerVal
    IN  IF abs(deltaX) < deadzone /\ abs(deltaY) < deadzone
        THEN JOY_CENTER
        ELSE IF abs(deltaX) > abs(deltaY)
             THEN (IF deltaX > 0 THEN JOY_RIGHT ELSE JOY_LEFT)
             ELSE (IF deltaY > 0 THEN JOY_DOWN ELSE JOY_UP)

\* calculatePosition() with a stick exactly at the center always at rest
calculatePositionRestAtCenter(cx, cy, minVal, maxVal, centerVal, deadzone, invX, invY) ==
    LET x == IF invX THEN Invert(cx, minVal, maxVal) ELSE cx
        y == IF invY THEN Invert(cy, minVal, maxVal) ELSE cy
        deltaX == x - centerVal
        deltaY == y - centerVal
    IN  IF \/ abs(deltaX) < deadzone /\ abs(deltaY) < deadzone
           \/ deltaX = 0 /\ deltaY = 0
        THEN JOY_CENTER
        ELSE IF abs(deltaX) > abs(deltaY)
             THEN (IF deltaX > 0 THEN JOY_RIGHT ELSE JOY_LEFT)
             ELSE (IF deltaY > 0 THEN JOY_UP ELSE JOY_DOWN)

\* calculatePosition() with a deadzone twice as wide while the stable
\* position is a direction
calculatePositionSticky(cx, cy, minVal, maxVal, centerVal, deadzone, invX, invY) ==
    LET x == IF invX THEN Invert(cx, minVal, maxVal) ELSE cx
        y == IF invY THEN Invert(cy, minVal, maxVal) ELSE cy
        deltaX == x - centerVal
        deltaY == y - centerVal
        zone == IF _previousPosition = JOY_CENTER THEN deadzone ELSE 2 * deadzone
    IN  IF abs(deltaX) < zone /\ abs(deltaY) < zone
        THEN JOY_CENTER
        ELSE IF abs(deltaX) > abs(deltaY)
             THEN (IF deltaX > 0 THEN JOY_RIGHT ELSE JOY_LEFT)
             ELSE (IF deltaY > 0 THEN JOY_UP ELSE JOY_DOWN)

calculatePosition(cx, cy, minVal, maxVal, centerVal, deadzone, invX, invY) ==
    LET x == IF invX THEN Invert(cx, minVal, maxVal) ELSE cx
        y == IF invY THEN Invert(cy, minVal, maxVal) ELSE cy
        deltaX == x - centerVal
        deltaY == y - centerVal
    IN  IF abs(deltaX) < deadzone /\ abs(deltaY) < deadzone
        THEN JOY_CENTER
        ELSE IF abs(deltaX) > abs(deltaY)
             THEN (IF deltaX > 0 THEN JOY_RIGHT ELSE JOY_LEFT)
             ELSE (IF deltaY > 0 THEN JOY_UP ELSE JOY_DOWN)

----------------------------------------------------------------------------
(* Scroll controller: scrollUp / scrollDown and the joystick callbacks *)

\* scrollUp() without its test of the top
scrollUpUnclamped(offset) == offset - 1

\* displayOffset after scrollUp()
scrollUp(offset) == IF offset > 0 THEN offset - 1 ELSE offset

\* scrollDown() without its test of the bottom
scrollDownUnclamped(offset, maxOffset) == offset + 1

\* scrollDown() moving by a page of LCD_ROWS rows
scrollDownPage(offset, maxOffset) ==
    IF offset < maxOffset + MenuItems THEN offset + LCD_ROWS ELSE offset

\* scrollDown() with <= in place of <: one step past the last menu line
scrollDownPastMenu(offset, maxOffset) ==
    IF offset <= maxOffset + MenuItems THEN offset + 1 ELSE offset

\* displayOffset after scrollDown()
scrollDown(offset, maxOffset) ==
    IF offset < maxOffset + MenuItems THEN offset + 1 ELSE offset

\* what print_menu() prints for the item sensorIndex
print_menu(sensorIndex) ==
    (IF sensorIndex = NUM_SENSORS THEN <<[menu |-> "separator"]>> ELSE << >>)
    \o (IF sensorIndex = NUM_SENSORS + 1 THEN <<[menu |-> "ip label"]>> ELSE << >>)
    \o (IF sensorIndex = NUM_SENSORS + 2 THEN <<[menu |-> "ip value"]>> ELSE << >>)
    \o (IF sensorIndex = NUM_SENSORS + 3 THEN <<[menu |-> "version"]>> ELSE << >>)

\* the array index print_sensordata() reads sensorNames and sensorTemperatures at
print_sensordata(sensorIndex) == <<[sensor |-> sensorIndex]>>

\* what one pass of the loop of updateDisplay() puts on the row
DisplayRow(offset, row) ==
    LET sensorIndex == offset + row
    IN  (IF sensorIndex < NUM_SENSORS THEN print_sensordata(sensorIndex) ELSE << >>)
        \o print_menu(sensorIndex)

\* the LCD after lcd.clear()
Cleared == [drawn |-> FALSE, offset |-> 0]

\* the LCD after updateDisplay(): the four rows from offset on
updateDisplay(offset) == [drawn |-> TRUE, offset |-> offset]

\* the LCD after scrollUp(): cleared, and drawn again if the offset moved
scrollUpLcd(offset) ==
    IF offset > 0 THEN updateDisplay(offset - 1) ELSE Cleared

\* the LCD after scrollDown(): cleared, and drawn again if the offset moved
scrollDownLcd(offset, maxOffset) ==
    IF offset < maxOffset + MenuItems THEN updateDisplay(offset + 1) ELSE Cleared

\* the LCD after the callback h has run
RunCallbackLcd(h, offset, maxOffset, screen) ==
    CASE h = "onJoystickUp"   -> scrollUpLcd(offset)
      [] h = "onJoystickDown" -> scrollDownLcd(offset, maxOffset)
      [] OTHER                -> screen

\* displayOffset after the callback h has run
RunCallback(h, offset, maxOffset) ==
    CASE h = "onJoystickUp"   -> scrollUp(offset)
      [] h = "onJoystickDown" -> scrollDown(offset, maxOffset)
      [] OTHER                -> offset

----------------------------------------------------------------------------
(* Input Event Dispatcher: Joystick::update *)

\* the debounce test with >= in place of >
DebounceElapsedInclusive(currentTime, lastTime) ==
    LET e == Sub32(currentTime, lastTime)
    IN  e = U32(_debounceDelay) \/ Gt32(e, _debounceDelay)

\* the debounce test with twice the delay
DebounceElapsedLate(currentTime, lastTime) ==
    Gt32(Sub32(currentTime, lastTime), 2 * _debounceDelay)

\* the debounce test left out
DebounceElapsedAlways(currentTime, lastTime) == TRUE

\* the debounce test on the plain difference of the two clock values, which
\* is negative once the clock has wrapped
DebounceElapsedSigned(currentTime, lastTime) ==
    \/ currentTime[1] > lastTime[1] + 1
    \/ currentTime[1] = lastTime[1] + 1 /\ Half + currentTime[2] - lastTime[2] > _debounceDelay
    \/ currentTime[1] = lastTime[1] /\ currentTime[2] - lastTime[2] > _debounceDelay

\* the debounce test of both channels
DebounceElapsed(currentTime, lastTime) ==
    Gt32(Sub32(currentTime, lastTime), _debounceDelay)

\* a differing reading accepted whatever the clock says
ConfirmedUndebounced(reading, previous, currentTime, lastTime) ==
    reading # previous

\* a reading accepted again whenever the delay has passed, changed or not
ConfirmedRepeat(reading, previous, currentTime, lastTime) ==
    DebounceElapsed(currentTime, lastTime)

\* one debounce window shared by both channels
ConfirmedShared(reading, previous, currentTime, lastTime) ==
    /\ reading # previous
    /\ DebounceElapsed(currentTime, _lastSwitchTime)
    /\ DebounceElapsed(currentTime, _lastPositionTime)

\* a reading that differs from the stable value is accepted
Confirmed(reading, previous, currentTime, lastTime) ==
    reading # previous /\ DebounceElapsed(currentTime, lastTime)

\* what a callback finds in the dispatcher when it is entered
Seen(prevPos, posTime, curPos, prevSw, swTime, curSw) ==
    [_previousPosition |-> prevPos, _lastPositionTime |-> posTime,
     _currentPosition |-> curPos, _previousSwitch |-> prevSw,
     _lastSwitchTime |-> swTime, _currentSwitch |-> curSw]

\* the button section invoking its callback on releases too
SwitchCallsAnyEdge(switchPressed, currentTime) ==
    IF /\ Confirmed(switchPressed, _previousSwitch, currentTime, _lastSwitchTime)
       /\ _callback["Switch"] # nullptr
    THEN << [ev |-> "Switch", cb |-> _callback["Switch"],
             seen |-> Seen(_previousPosition, _lastPositionTime, _currentPosition,
                           _previousSwitch, _lastSwitchTime, _currentSwitch)] >>
    ELSE << >>

\* the button section invoking its callback on every rising edge of the raw
\* reading, debounced or not
SwitchCallsRaw(switchPressed, currentTime) ==
    IF /\ switchPressed /\ ~_currentSwitch
       /\ _callback["Switch"] # nullptr
    THEN << [ev |-> "Switch", cb |-> _callback["Switch"],
             seen |-> Seen(_previousPosition, _lastPositionTime, _currentPosition,
                           _previousSwitch, _lastSwitchTime, _currentSwitch)] >>
    ELSE << >>

\* the callbacks the button section invokes
SwitchCalls(switchPressed, currentTime) ==
    IF /\ Confirmed(switchPressed, _previousSwitch, currentTime, _lastSwitchTime)
       /\ switchPressed /\ ~_previousSwitch
       /\ _callback["Switch"] # nullptr
    THEN << [ev |-> "Switch", cb |-> _callback["Switch"],
             seen |-> Seen(_previousPosition, _lastPositionTime, _currentPosition,
                           _previousSwitch, _lastSwitchTime, _currentSwitch)] >>
    ELSE << >>

\* the position section storing the new position before it invokes the callback
PositionCallsCommitted(newPosition, currentTime, prevSw1, swTime1, curSw1) ==
    IF /\ Confirmed(newPosition, _previousPosition, currentTime, _lastPositionTime)
       /\ _callback[newPosition] # nullptr
    THEN << [ev |-> newPosition, cb |-> _callback[newPosition],
             seen |-> Seen(newPosition, currentTime, newPosition,
                           prevSw1, swTime1, curSw1)] >>
    ELSE << >>

\* the position section with no callback for the return to Center
PositionCallsNoCenter(newPosition, currentTime, prevSw1, swTime1, curSw1) ==
    IF /\ Confirmed(newPosition, _previousPosition, currentTime, _lastPositionTime)
       /\ newPosition # JOY_CENTER
       /\ _callback[newPosition] # nullptr
    THEN << [ev |-> newPosition, cb |-> _callback[newPosition],
             seen |-> Seen(_previousPosition, _lastPositionTime, _currentPosition,
                           prevSw1, swTime1, curSw1)] >>
    ELSE << >>

\* the position section invoking the callback of the position left as well
PositionCallsBoth(newPosition, currentTime, prevSw1, swTime1, curSw1) ==
    IF Confirmed(newPosition, _previousPosition, currentTime, _lastPositionTime)
    THEN LET s == Seen(_previousPosition, _lastPositionTime, _currentPosition,
                       prevSw1, swTime1, curSw1)
         IN  << [ev |-> _previousPosition, cb |-> _callback[_previousPosition],
                 seen |-> s],
                [ev |-> newPosition, cb |-> _callback[newPosition], seen |-> s] >>
    ELSE << >>

\* the position section invoking the callback without testing it for nullptr
PositionCallsUnchecked(newPosition, currentTime, prevSw1, swTime1, curSw1) ==
    IF Confirmed(newPosition, _previousPosition, currentTime, _lastPositionTime)
    THEN << [ev |-> newPosition, cb |-> _callback[newPosition],
             seen |-> Seen(_previousPosition, _lastPositionTime, _currentPosition,
                           prevSw1, swTime1, curSw1)] >>
    ELSE << >>

\* the position section invoking the callback of the position left
PositionCallsPrevious(newPosition, currentTime, prevSw1, swTime1, curSw1) ==
    IF /\ Confirmed(newPosition, _previousPosition, currentTime, _lastPositionTime)
       /\ _callback[_previousPosition] # nullptr
    THEN << [ev |-> _previousPosition, cb |-> _callback[_previousPosition],
             seen |-> Seen(_previousPosition, _lastPositionTime, _currentPosition,
                           prevSw1, swTime1, curSw1)] >>
    ELSE << >>

\* the callbacks the position section invokes; the button section has run
PositionCalls(newPosition, currentTime, prevSw1, swTime1, curSw1) ==
    IF /\ Confirmed(newPosition, _previousPosition, currentTime, _lastPositionTime)
       /\ _callback[newPosition] # nullptr
    THEN << [ev |-> newPosition, cb |-> _callback[newPosition],
             seen |-> Seen(_previousPosition, _lastPositionTime, _currentPosition,
                           prevSw1, swTime1, curSw1)] >>
    ELSE << >>

RECURSIVE RunCalls(_, _, _)
\* displayOffset after the callbacks of calls have run in order
RunCalls(calls, offset, maxOffset) ==
    IF calls = << >> THEN offset
    ELSE RunCalls(Tail(calls), RunCallback(Head(calls).cb, offset, maxOffset), maxOffset)

RECURSIVE RunCallsLcd(_, _, _, _)
\* the LCD after the callbacks of calls have run in order
RunCallsLcd(calls, offset, maxOffset, screen) ==
    IF calls = << >> THEN screen
    ELSE RunCallsLcd(Tail(calls),
                     RunCallback(Head(calls).cb, offset, maxOffset), maxOffset,
                     RunCallbackLcd(Head(calls).cb, offset, maxOffset, screen))

\* the count n of dropped readings with one more, up to MaxDrops
Counted(n) == IF n < MaxDrops THEN n + 1 ELSE n

\* s with t appended, cut to its last two entries
Last2(s, t) == IF Len(s) < 2 THEN Append(s, t) ELSE <<s[2], t>>

\* the position the firmware reads between two calls of update()
getPosition == _currentPosition

\* update() reporting every reading as the current position, like the switch
updateReading(currentTime, x, y, switchPressed) ==
    LET swOk == Confirmed(switchPressed, _previousSwitch, currentTime, _lastSwitchTime)
        swCalls == SwitchCalls(switchPressed, currentTime)
        prevSw1 == IF swOk THEN switchPressed ELSE _previousSwitch
        swTime1 == IF swOk THEN currentTime ELSE _lastSwitchTime
        newPosition == calculatePosition(x, y, _minVal, _maxVal, _centerVal,
                                         _deadzone, _invertX, _invertY)
        posOk == Confirmed(newPosition, _previousPosition, currentTime, _lastPositionTime)
        posCalls == PositionCalls(newPosition, currentTime, prevSw1, swTime1, switchPressed)
    IN  /\ _currentX' = x
        /\ _currentY' = y
        /\ _previousSwitch' = prevSw1
        /\ _lastSwitchTime' = swTime1
        /\ _currentSwitch' = switchPressed
        /\ _previousPosition' = IF posOk THEN newPosition ELSE _previousPosition
        /\ _currentPosition' = newPosition
        /\ _lastPositionTime' = IF posOk THEN currentTime ELSE _lastPositionTime
        /\ fired' = swCalls \o posCalls
        /\ displayOffset' = RunCalls(swCalls \o posCalls, displayOffset, maxDisplayOffset)
        /\ poll' = [valid |-> TRUE, currentTime |-> currentTime,
                    switchPressed |-> switchPressed, newPosition |-> newPosition,
                    _previousPosition |-> _previousPosition,
                    _lastPositionTime |-> _lastPositionTime,
                    _previousSwitch |-> _previousSwitch,
                    _lastSwitchTime |-> _lastSwitchTime,
                    _currentSwitch |-> _currentSwitch,
                    displayOffset |-> displayOffset, drops |-> drops,
                    x |-> x, y |-> y,
                    cal |-> [minVal |-> _minVal, maxVal |-> _maxVal,
                             centerVal |-> _centerVal, deadzone |-> _deadzone,
                             invertX |-> _invertX, invertY |-> _invertY]]
        /\ history' = [position |-> IF posOk THEN Last2(history.position, currentTime)
                                     ELSE history.position,
                       button |-> IF swOk THEN Last2(history.button, currentTime)
                                  ELSE history.button]
        /\ drops' = [position |-> IF posOk THEN 0
                                  ELSE IF newPosition # _previousPosition
                                       THEN Counted(drops.position)
                                       ELSE drops.position,
                     button |-> IF swOk THEN 0
                                ELSE IF switchPressed # _previousSwitch
                                     THEN Counted(drops.button)
                                     ELSE drops.button]
        /\ UNCHANGED <<_minVal, _maxVal, _centerVal, _deadzone, _invertX, _invertY,
                       _debugMode,
                       _callback, maxDisplayOffset,
                       currentIndex, lastDebounce, press>>

\* Joystick::update() at clock value currentTime with readings x, y, switchPressed
update(currentTime, x, y, switchPressed) ==
    LET swOk == Confirmed(switchPressed, _previousSwitch, currentTime, _lastSwitchTime)
        swCalls == SwitchCalls(switchPressed, currentTime)
        prevSw1 == IF swOk THEN switchPressed ELSE _previousSwitch
        swTime1 == IF swOk THEN currentTime ELSE _lastSwitchTime
        newPosition == calculatePosition(x, y, _minVal, _maxVal, _centerVal,
                                         _deadzone, _invertX, _invertY)
        posOk == Confirmed(newPosition, _previousPosition, currentTime, _lastPositionTime)
        posCalls == PositionCalls(newPosition, currentTime, prevSw1, swTime1, switchPressed)
    IN  /\ _currentX' = x
        /\ _currentY' = y
        /\ _previousSwitch' = prevSw1
        /\ _lastSwitchTime' = swTime1
        /\ _currentSwitch' = switchPressed
        /\ _previousPosition' = IF posOk THEN newPosition ELSE _previousPosition
        /\ _currentPosition' = IF posOk THEN newPosition ELSE _currentPosition
        /\ _lastPositionTime' = IF posOk THEN currentTime ELSE _lastPositionTime
        /\ fired' = swCalls \o posCalls
        /\ displayOffset' = RunCalls(swCalls \o posCalls, displayOffset, maxDisplayOffset)
        /\ poll' = [valid |-> TRUE, currentTime |-> currentTime,
                    switchPressed |-> switchPressed, newPosition |-> newPosition,
                    _previousPosition |-> _previousPosition,
                    _lastPositionTime |-> _lastPositionTime,
                    _previousSwitch |-> _previousSwitch,
                    _lastSwitchTime |-> _lastSwitchTime,
                    _currentSwitch |-> _currentSwitch,
                    displayOffset |-> displayOffset, drops |-> drops,
                    x |-> x, y |-> y,
                    cal |-> [minVal |-> _minVal, maxVal |-> _maxVal,
                             centerVal |-> _centerVal, deadzone |-> _deadzone,
                             invertX |-> _invertX, invertY |-> _invertY]]
        /\ history' = [position |-> IF posOk THEN Last2(history.position, currentTime)
                                     ELSE history.position,
                       button |-> IF swOk THEN Last2(history.button, currentTime)
                                  ELSE history.button]
        /\ drops' = [position |-> IF posOk THEN 0
                                  ELSE IF newPosition # _previousPosition
                                       THEN Counted(drops.position)
                                       ELSE drops.position,
                     button |-> IF swOk THEN 0
                                ELSE IF switchPressed # _previousSwitch
                                     THEN Counted(drops.button)
                                     ELSE drops.button]
        /\ UNCHANGED <<_minVal, _maxVal, _centerVal, _deadzone, _invertX, _invertY,
                       _debugMode,
                       _callback, maxDisplayOffset,
                       currentIndex, lastDebounce, press>>

----------------------------------------------------------------------------
(* The firmware *)

NoPoll == [valid |-> FALSE, currentTime |-> U32(0), switchPressed |-> FALSE,
           newPosition |-> JOY_CENTER, _previousPosition |-> JOY_CENTER,
           _lastPositionTime |-> U32(0), _previousSwitch |-> FALSE,
           _lastSwitchTime |-> U32(0), _currentSwitch |-> FALSE, displayOffset |-> 0,
           drops |-> [position |-> 0, button |-> 0], x |-> 0, y |-> 0,
           cal |-> [minVal |-> 1200, maxVal |-> 4095, centerVal |-> 2559,
                    deadzone |-> 300, invertX |-> FALSE, invertY |-> FALSE]]

\* code.cpp: the number of sensors of the button-driven firmware
SENSOR_COUNT == 8

\* code.cpp: the levels digitalRead() returns; a pressed button reads LOW
LOW == "LOW"

HIGH == "HIGH"

Levels == {LOW, HIGH}

\* code.cpp: handleButtons() ignores the buttons for this long after a press
ButtonDebounce == 150

\* code.cpp: the last LCD row that lcdShowCurrentPage() fills with a sensor
LastRow == 3

NoPress == [valid |-> FALSE, now |-> U32(0), up |-> HIGH, dn |-> HIGH,
            currentIndex |-> 0, lastDebounce |-> U32(0)]

Sensors == 0..(NUM_SENSORS - 1)

\* the name "Sensor <i + 1>" initPreferences() gives a sensor without a stored one
DefaultName(i) == <<"S", "e", "n", "s", "o", "r", " ", i + 1>>

\* preferences.getString(): the stored name of key i, or def
getString(prefs, i, def) == IF i \in DOMAIN prefs THEN prefs[i] ELSE def

\* preferences.putString(): the store with name under key i
putString(prefs, i, name) ==
    [k \in (DOMAIN prefs) \cup {i} |-> IF k = i THEN name ELSE prefs[k]]

\* the constructor taking the idle level of the pulled-up pin for a press
InitPressed ==
    /\ pc = "boot"
    /\ now = U32(0)
    /\ _minVal = 1200 /\ _maxVal = 4095 /\ _centerVal = 2559 /\ _deadzone = 300
    /\ _invertX = FALSE /\ _invertY = FALSE
    /\ _debugMode = FALSE
    /\ _currentX = 0 /\ _currentY = 0
    /\ _currentPosition = JOY_CENTER /\ _previousPosition = JOY_CENTER
    /\ _currentSwitch = TRUE /\ _previousSwitch = TRUE
    /\ _lastSwitchTime = U32(0) /\ _lastPositionTime = U32(0)
    /\ _callback = [e \in Events |-> nullptr]
    /\ displayOffset = 0 /\ maxDisplayOffset = 0
    /\ fired = << >>
    /\ poll = NoPoll
    /\ history = [position |-> << >>, button |-> << >>]
    /\ drops = [position |-> 0, button |-> 0]
    /\ sensorTemperatures = [i \in Sensors |-> 0]
    /\ sensorNames = [i \in Sensors |-> << >>]
    /\ preferences = [k \in {} |-> << >>]
    /\ lastModbusUpdate = U32(0)
    /\ lcd = Cleared
    /\ op = "construct"
    /\ trace = << >>
    /\ currentIndex = 0
    /\ lastDebounce = U32(0)
    /\ press = NoPress

\* the global objects as constructed: Joystick::Joystick and the globals of
\* thermohub8.cpp; the constructor does not assign the raw readings, which
\* are zero in an object of static storage
Init ==
    /\ pc = "boot"
    /\ now = U32(0)
    /\ _minVal = 1200 /\ _maxVal = 4095 /\ _centerVal = 2559 /\ _deadzone = 300
    /\ _invertX = FALSE /\ _invertY = FALSE
    /\ _debugMode = FALSE
    /\ _currentX = 0 /\ _currentY = 0
    /\ _currentPosition = JOY_CENTER /\ _previousPosition = JOY_CENTER
    /\ _currentSwitch = FALSE /\ _previousSwitch = FALSE
    /\ _lastSwitchTime = U32(0) /\ _lastPositionTime = U32(0)
    /\ _callback = [e \in Events |-> nullptr]
    /\ displayOffset = 0 /\ maxDisplayOffset = 0
    /\ fired = << >>
    /\ poll = NoPoll
    /\ history = [position |-> << >>, button |-> << >>]
    /\ drops = [position |-> 0, button |-> 0]
    /\ sensorTemperatures = [i \in Sensors |-> 0]
    /\ sensorNames = [i \in Sensors |-> << >>]
    /\ preferences = [k \in {} |-> << >>]
    /\ lastModbusUpdate = U32(0)
    /\ lcd = Cleared
    /\ op = "construct"
    /\ trace = << >>
    /\ currentIndex = 0
    /\ lastDebounce = U32(0)
    /\ press = NoPress

\* initJoystick() with the Up and Down callbacks exchanged
RegisteredSwapped ==
    [e \in Events |->
        CASE e = JOY_UP     -> "onJoystickDown"
          [] e = JOY_DOWN   -> "onJoystickUp"
          [] e = JOY_LEFT   -> "onJoystickLeft"
          [] e = JOY_RIGHT  -> "onJoystickRight"
          [] e = JOY_CENTER -> "onJoystickCenter"
          [] OTHER          -> "onJoystickSwitch"]

\* the callbacks initJoystick() registers
Registered ==
    [e \in Events |->
        CASE e = JOY_UP     -> "onJoystickUp"
          [] e = JOY_DOWN   -> "onJoystickDown"
          [] e = JOY_LEFT   -> "onJoystickLeft"
          [] e = JOY_RIGHT  -> "onJoystickRight"
          [] e = JOY_CENTER -> "onJoystickCenter"
          [] OTHER          -> "onJoystickSwitch"]

\* setup(): the error values, initPreferences(), initDisplay(),
\* initJoystick() and the first updateDisplay(), with the delays
Setup ==
    /\ pc = "boot"
    /\ pc' = "loop"
    /\ now' = Add32(now, SplashDelay + ReadyDelay)
    /\ maxDisplayOffset' = max(0, NUM_SENSORS - LCD_ROWS)
    /\ _minVal' = JOY_MIN_VAL /\ _maxVal' = JOY_MAX_VAL
    /\ _centerVal' = JOY_CENTER_VAL /\ _deadzone' = JOY_DEADZONE
    /\ _invertY' = TRUE
    /\ _callback' = Registered
    /\ sensorTemperatures' = [i \in Sensors |-> ErrorTemp]
    /\ sensorNames' = [i \in Sensors |-> getString(preferences, i, DefaultName(i))]
    /\ lcd' = updateDisplay(displayOffset)
    /\ op' = "setup"
    /\ UNCHANGED <<_invertX, _debugMode, _currentX, _currentY, _currentSwitch,
                   _currentPosition,
                   _previousPosition, _previousSwitch, _lastSwitchTime,
                   _lastPositionTime, displayOffset, fired, poll, history, drops,
                   preferences, lastModbusUpdate, trace,
                   currentIndex, lastDebounce, press>>

\* updateSensorData() finds the interval elapsed
SensorsDue == Ge32(Sub32(now, lastModbusUpdate), MODBUS_UPDATE_INTERVAL)

\* updateSensorData() with the eight results temps of readModbusFloat(): the
\* test temp != -999.9 compares a float with a double and is true of the
\* error value too, so every result is stored
updateSensorData(temps) ==
    IF SensorsDue
    THEN /\ lastModbusUpdate' = now
         /\ sensorTemperatures' = temps
    ELSE UNCHANGED <<lastModbusUpdate, sensorTemperatures>>

\* one iteration of loop() that takes dt milliseconds: updateSensorData(),
\* updateDisplay(), joystick.update() and the delay
LoopBody(dt, x, y, switchPressed, temps) ==
    /\ pc = "loop"
    /\ updateSensorData(temps)
    /\ update(now, x, y, switchPressed)
    /\ lcd' = RunCallsLcd(fired', displayOffset, maxDisplayOffset,
                          updateDisplay(displayOffset))
    /\ now' = Add32(now, dt)
    /\ pc' = pc
    /\ op' = "loop"
    /\ UNCHANGED <<sensorNames, preferences>>

\* the first part of an iteration of loop(): updateSensorData(),
\* updateDisplay() and the entry of joystick.update(), which reads millis()
LoopRefresh(temps) ==
    /\ pc = "loop"
    /\ pc' = "update"
    /\ updateSensorData(temps)
    /\ lcd' = updateDisplay(displayOffset)
    /\ op' = "refresh"
    /\ UNCHANGED <<now, _minVal, _maxVal, _centerVal, _deadzone, _invertX,
                   _invertY, _debugMode, _currentX, _currentY, _currentSwitch,
                   _currentPosition, _previousPosition, _previousSwitch,
                   _callback, _lastSwitchTime, _lastPositionTime, displayOffset,
                   maxDisplayOffset, fired, poll, history, drops, sensorNames,
                   preferences, trace,
                   currentIndex, lastDebounce, press>>

\* the rest of the iteration: joystick.update() from its readings on, with
\* the callbacks it invokes, and the delay; the iteration takes dt
LoopUpdate(dt, x, y, switchPressed) ==
    /\ pc = "update"
    /\ pc' = "loop"
    /\ update(now, x, y, switchPressed)
    /\ lcd' = RunCallsLcd(fired', displayOffset, maxDisplayOffset, lcd)
    /\ now' = Add32(now, dt)
    /\ op' = "loop"
    /\ UNCHANGED <<sensorTemperatures, lastModbusUpdate, sensorNames,
                   preferences, trace>>

\* the clock is at most limit - dt past the end of setup()
Within(dt, limit) ==
    LET e == Sub32(now, U32(SplashDelay + ReadyDelay))
    IN  e[1] = 0 /\ e[2] + dt <= limit

Loop ==
    \E dt \in Steps, s \in RawSamples, switchPressed \in BOOLEAN :
        /\ Within(dt, MaxElapsed)
        /\ LoopBody(dt, s[1], s[2], switchPressed, Readings)
        /\ UNCHANGED trace

LoopScroll ==
    \E dt \in ScrollSteps, s \in RawSamples, switchPressed \in ScrollSwitch :
        /\ Within(dt, MaxScrollElapsed)
        /\ LoopBody(dt, s[1], s[2], switchPressed, Readings)
        /\ UNCHANGED trace

\* the poll of this step recorded in trace: its inputs, the dispatcher
\* before it, what it computed and called, and the stable values after it
Traced(x, y, switchPressed) ==
    trace' = Append(trace, [t |-> now, x |-> x, y |-> y,
                            switchPressed |-> switchPressed,
                            fired |-> fired',
                            stable |-> _previousPosition',
                            stableSwitch |-> _previousSwitch',
                            newPosition |-> poll'.newPosition,
                            cal |-> poll'.cal,
                            before |-> [_previousPosition |-> _previousPosition,
                                        _previousSwitch |-> _previousSwitch,
                                        _lastPositionTime |-> _lastPositionTime,
                                        _lastSwitchTime |-> _lastSwitchTime,
                                        _debugMode |-> _debugMode]])

\* loop() with every poll recorded in trace
LoopTrace ==
    \E dt \in TraceSteps, s \in TraceSamples, switchPressed \in BOOLEAN :
        /\ Len(trace) < MaxTrace
        /\ LoopBody(dt, s[1], s[2], switchPressed, Readings)
        /\ Traced(s[1], s[2], switchPressed)

\* loop() with every poll recorded in trace, beside changes of the debug mode
LoopPure ==
    \E dt \in PureSteps, s \in PureSamples, switchPressed \in BOOLEAN :
        /\ Len(trace) < MaxTrace
        /\ LoopBody(dt, s[1], s[2], switchPressed, Readings)
        /\ Traced(s[1], s[2], switchPressed)

\* what the calibration setters of Joystick leave alone
CalibrationFrame ==
    UNCHANGED <<pc, now, _debugMode, _currentX, _currentY, _currentSwitch,
                _currentPosition, _previousPosition, _previousSwitch, _callback,
                _lastSwitchTime, _lastPositionTime, displayOffset,
                maxDisplayOffset, fired, poll, history, drops,
                sensorTemperatures, sensorNames, preferences,
                lastModbusUpdate, lcd, trace,
                currentIndex, lastDebounce, press>>

\* setThresholds() that also returns the dispatcher to its state at rest
setThresholdsReset(minVal, maxVal, centerVal, deadzone) ==
    /\ pc = "loop"
    /\ _minVal' = minVal /\ _maxVal' = maxVal
    /\ _centerVal' = centerVal /\ _deadzone' = deadzone
    /\ _previousPosition' = JOY_CENTER /\ _currentPosition' = JOY_CENTER
    /\ op' = "setThresholds"
    /\ UNCHANGED <<_invertX, _invertY>>
    /\ UNCHANGED <<pc, now, _debugMode, _currentX, _currentY, _currentSwitch,
                   _previousSwitch, _callback, _lastSwitchTime,
                   _lastPositionTime, displayOffset, maxDisplayOffset, fired, poll,
                   history, drops, sensorTemperatures, sensorNames, preferences,
                   lastModbusUpdate, lcd, trace,
                   currentIndex, lastDebounce, press>>

\* Joystick::setThresholds(), called between two iterations of loop()
setThresholds(minVal, maxVal, centerVal, deadzone) ==
    /\ pc = "loop"
    /\ _minVal' = minVal /\ _maxVal' = maxVal
    /\ _centerVal' = centerVal /\ _deadzone' = deadzone
    /\ op' = "setThresholds"
    /\ UNCHANGED <<_invertX, _invertY>>
    /\ CalibrationFrame

\* Joystick::setInvertX(), called between two iterations of loop()
setInvertX(invert) ==
    /\ pc = "loop"
    /\ _invertX' = invert
    /\ op' = "setInvertX"
    /\ UNCHANGED <<_minVal, _maxVal, _centerVal, _deadzone, _invertY>>
    /\ CalibrationFrame

\* Joystick::setInvertY(), called between two iterations of loop()
setInvertY(invert) ==
    /\ pc = "loop"
    /\ _invertY' = invert
    /\ op' = "setInvertY"
    /\ UNCHANGED <<_minVal, _maxVal, _centerVal, _deadzone, _invertX>>
    /\ CalibrationFrame

\* Joystick::setDebugMode(), called between two iterations of loop(); the
\* debug mode only adds output on Serial
setDebugMode(enabled) ==
    /\ pc = "loop"
    /\ _debugMode' = enabled
    /\ op' = "setDebugMode"
    /\ UNCHANGED <<now, _minVal, _maxVal, _centerVal, _deadzone, _invertX,
                   _invertY, _currentX, _currentY, _currentSwitch,
                   _currentPosition, _previousPosition, _previousSwitch,
                   _callback, _lastSwitchTime, _lastPositionTime, displayOffset,
                   maxDisplayOffset, fired, poll, history, drops,
                   sensorTemperatures, sensorNames, preferences,
                   lastModbusUpdate, lcd, trace,
                   currentIndex, lastDebounce, press>>
    /\ pc' = pc

\* what a registration leaves alone
RegistrationFrame ==
    UNCHANGED <<pc, now, _minVal, _maxVal, _centerVal, _deadzone, _invertX,
                _invertY, _debugMode, _currentX, _currentY, _currentSwitch,
                _currentPosition, _previousPosition, _previousSwitch,
                _lastSwitchTime, _lastPositionTime, displayOffset,
                maxDisplayOffset, fired, poll, history, drops,
                sensorTemperatures, sensorNames, preferences,
                lastModbusUpdate, lcd,
                currentIndex, lastDebounce, press>>

\* a registration that keeps a callback already registered
onFirstWins(ev, callback) ==
    /\ pc = "loop"
    /\ _callback' = [_callback EXCEPT
                         ![ev] = IF @ = nullptr THEN callback ELSE @]
    /\ op' = "on"
    /\ RegistrationFrame

\* Joystick::onLeft() .. onSwitch(): the registration of callback for the
\* event ev, called between two iterations of loop()
on(ev, callback) ==
    /\ pc = "loop"
    /\ _callback' = [_callback EXCEPT ![ev] = callback]
    /\ op' = "on"
    /\ RegistrationFrame

\* a registration, recorded in trace
Register ==
    \E ev \in Events, callback \in RegisterHandlers :
        /\ Len(trace) < MaxRegistrations
        /\ on(ev, callback)
        /\ trace' = Append(trace, [ev |-> ev, cb |-> callback])

\* loop() beside registrations
LoopRegister ==
    \E dt \in RegisterSteps, s \in RegisterSamples, switchPressed \in BOOLEAN :
        /\ Within(dt, MaxRegisterElapsed)
        /\ LoopBody(dt, s[1], s[2], switchPressed, Readings)
        /\ UNCHANGED trace

\* loop() with the samples of the classifier's boundaries
LoopClassify ==
    \E dt \in ClassifySteps, x \in ClassifyValues, y \in ClassifyValues :
        /\ Within(dt, MaxClassifyElapsed)
        /\ LoopBody(dt, x, y, FALSE, Readings)
        /\ UNCHANGED trace

\* name.substring(0, MAX_SENSOR_NAME_LENGTH) of a name that is too long
Truncated(name) ==
    IF Len(name) > MAX_SENSOR_NAME_LENGTH
    THEN SubSeq(name, 1, MAX_SENSOR_NAME_LENGTH)
    ELSE name

\* saveSensorName() without the test of the index
saveSensorNameUnchecked(sensorIndex, name) ==
    /\ preferences' = putString(preferences, sensorIndex, Truncated(name))
    /\ sensorNames' = [k \in (DOMAIN sensorNames) \cup {sensorIndex} |->
                          IF k = sensorIndex THEN Truncated(name) ELSE sensorNames[k]]

\* saveSensorName(): a valid index stores the truncated name in flash and
\* in sensorNames, any other index does nothing
saveSensorName(sensorIndex, name) ==
    IF sensorIndex >= 0 /\ sensorIndex < NUM_SENSORS
    THEN /\ preferences' = putString(preferences, sensorIndex, Truncated(name))
         /\ sensorNames' = [sensorNames EXCEPT ![sensorIndex] = Truncated(name)]
    ELSE UNCHANGED <<preferences, sensorNames>>

\* a call of saveSensorName() after setup(), logged in trace
Rename ==
    \E sensorIndex \in RenameIds, name \in RenameTexts :
        /\ pc # "boot"
        /\ Len(trace) < MaxRenames
        /\ saveSensorName(sensorIndex, name)
        /\ trace' = Append(trace, [sensorIndex |-> sensorIndex, name |-> name])
        /\ op' = "saveSensorName"
        /\ UNCHANGED <<pc, now, _minVal, _maxVal, _centerVal, _deadzone, _invertX,
                       _invertY, _debugMode, _currentX, _currentY, _currentSwitch,
                       _currentPosition, _previousPosition, _previousSwitch,
                       _callback, _lastSwitchTime, _lastPositionTime,
                       displayOffset, maxDisplayOffset, fired, poll, history,
                       drops, sensorTemperatures, lastModbusUpdate, lcd,
                       currentIndex, lastDebounce, press>>

\* what the request handlers of the web server leave alone
RequestFrame ==
    UNCHANGED <<pc, now, _minVal, _maxVal, _centerVal, _deadzone, _invertX,
                _invertY, _debugMode, _currentX, _currentY, _currentSwitch,
                _currentPosition,
                _previousPosition, _previousSwitch, _callback, _lastSwitchTime,
                _lastPositionTime, maxDisplayOffset, fired, poll, history, drops,
                sensorTemperatures, lastModbusUpdate, trace,
                currentIndex, lastDebounce, press>>

\* the body handler of POST /api/v1/sensor with a rewind of the display
HttpPostSensorRewind(error, sensorId, newName) ==
    /\ pc # "boot"
    /\ RequestFrame
    /\ IF error
       THEN /\ op' = "post 400 json"
            /\ UNCHANGED <<preferences, sensorNames, lcd, displayOffset>>
       ELSE IF sensorId < 0 \/ sensorId >= NUM_SENSORS
       THEN /\ op' = "post 400 id"
            /\ UNCHANGED <<preferences, sensorNames, lcd, displayOffset>>
       ELSE IF ~newName.present \/ Len(newName.text) = 0
       THEN /\ op' = "post 400 name"
            /\ UNCHANGED <<preferences, sensorNames, lcd, displayOffset>>
       ELSE /\ saveSensorName(sensorId, newName.text)
            /\ displayOffset' = 0
            /\ lcd' = updateDisplay(0)
            /\ op' = "post 200"

\* the body handler of POST /api/v1/sensor: a body that does not parse
\* (error), an invalid id and a missing or empty name are answered with 400,
\* anything else is saved and displayed; it runs in the task of the web
\* server, whatever loop() is doing
HttpPostSensor(error, sensorId, newName) ==
    /\ pc # "boot"
    /\ RequestFrame
    /\ UNCHANGED displayOffset
    /\ IF error
       THEN /\ op' = "post 400 json"
            /\ UNCHANGED <<preferences, sensorNames, lcd>>
       ELSE IF sensorId < 0 \/ sensorId >= NUM_SENSORS
       THEN /\ op' = "post 400 id"
            /\ UNCHANGED <<preferences, sensorNames, lcd>>
       ELSE IF ~newName.present \/ Len(newName.text) = 0
       THEN /\ op' = "post 400 name"
            /\ UNCHANGED <<preferences, sensorNames, lcd>>
       ELSE /\ saveSensorName(sensorId, newName.text)
            /\ lcd' = updateDisplay(displayOffset)
            /\ op' = "post 200"

\* POST /api/v1/sensor with some request body
HttpPost ==
    \E error \in BOOLEAN, sensorId \in RequestIds, newName \in RequestNames :
        HttpPostSensor(error, sensorId, newName)

\* GET /: generateStatusHTML() reads the names and temperatures
HttpGetRoot ==
    /\ pc = "loop"
    /\ op' = "get /"
    /\ RequestFrame
    /\ UNCHANGED <<preferences, sensorNames, lcd, displayOffset>>

\* GET /api/v1/sensordata: the handler reads the names and temperatures
HttpGetSensordata ==
    /\ pc = "loop"
    /\ op' = "get /api/v1/sensordata"
    /\ RequestFrame
    /\ UNCHANGED <<preferences, sensorNames, lcd, displayOffset>>

\* loop() of the firmware beside its web server
LoopFirmware ==
    \E dt \in FirmwareSteps, s \in FirmwareSamples :
        /\ Within(dt, MaxFirmwareElapsed)
        /\ LoopBody(dt, s[1], s[2], FALSE, Readings)
        /\ UNCHANGED trace

\* loop() entering joystick.update() in SpecTasks
TaskRefresh == Within(0, MaxTasksElapsed) /\ LoopRefresh(Readings)

\* joystick.update() and the end of the iteration in SpecTasks
TaskUpdate ==
    \E dt \in TasksSteps, s \in TasksSamples :
        LoopUpdate(dt, s[1], s[2], FALSE)

\* the clock is at most limit - dt past the end of setup(), or as much
\* past it plus a multiple of a quarter of the range of the clock
WithinQuarter(dt, limit) ==
    LET e == Sub32(now, U32(SplashDelay + ReadyDelay))
    IN  e[1] % 16384 = 0 /\ e[2] + dt <= limit

\* loop() for ever: short iterations, and iterations held up for long
LoopLive ==
    \/ \E dt \in LiveSteps, s \in LiveSamples :
           /\ WithinQuarter(dt, MaxLiveElapsed)
           /\ LoopBody(dt, s[1], s[2], FALSE, Readings)
           /\ UNCHANGED trace
    \/ \E dt \in LiveHolds, s \in LiveSamples :
           /\ LoopBody(dt, s[1], s[2], FALSE, Readings)
           /\ UNCHANGED trace

\* code.cpp: the sensors[] indices lcdShowCurrentPage() reads for the rows
\* from row on, with the page starting at index
RECURSIVE PageFrom(_, _)
PageFrom(row, index) ==
    IF row > LastRow THEN << >>
    ELSE LET idx == index + (row - 1)
         IN  IF idx >= SENSOR_COUNT THEN << >>
             ELSE <<idx>> \o PageFrom(row + 1, index)

\* code.cpp: the LCD after lcdShowCurrentPage(): the title and the page at index
lcdShowCurrentPage(index) == [drawn |-> TRUE, offset |-> index]

\* code.cpp: handleButtons() with the upper end of the list left unchecked
handleButtonsUnclamped(millis, up, dn) ==
    /\ press' = [valid |-> TRUE, now |-> millis, up |-> up, dn |-> dn,
                 currentIndex |-> currentIndex, lastDebounce |-> lastDebounce]
    /\ IF ~Ge32(Sub32(millis, lastDebounce), ButtonDebounce)
       THEN UNCHANGED <<currentIndex, lastDebounce, lcd>>
       ELSE IF up = LOW
       THEN /\ currentIndex' = IF currentIndex > 0 THEN currentIndex - 1
                               ELSE currentIndex
            /\ lastDebounce' = millis
            /\ lcd' = lcdShowCurrentPage(currentIndex')
       ELSE IF dn = LOW
       THEN /\ currentIndex' = (currentIndex + 1) % 256
            /\ lastDebounce' = millis
            /\ lcd' = lcdShowCurrentPage(currentIndex')
       ELSE UNCHANGED <<currentIndex, lastDebounce, lcd>>

\* code.cpp: handleButtons() at clock value millis with the pin levels up, dn
handleButtons(millis, up, dn) ==
    /\ press' = [valid |-> TRUE, now |-> millis, up |-> up, dn |-> dn,
                 currentIndex |-> currentIndex, lastDebounce |-> lastDebounce]
    /\ IF ~Ge32(Sub32(millis, lastDebounce), ButtonDebounce)
       THEN UNCHANGED <<currentIndex, lastDebounce, lcd>>
       ELSE IF up = LOW
       THEN /\ currentIndex' = IF currentIndex > 0 THEN currentIndex - 1
                               ELSE currentIndex
            /\ lastDebounce' = millis
            /\ lcd' = lcdShowCurrentPage(currentIndex')
       ELSE IF dn = LOW
       THEN /\ currentIndex' = IF currentIndex < SENSOR_COUNT - 1
                               THEN currentIndex + 1 ELSE currentIndex
            /\ lastDebounce' = millis
            /\ lcd' = lcdShowCurrentPage(currentIndex')
       ELSE UNCHANGED <<currentIndex, lastDebounce, lcd>>

\* code.cpp: loop() calling handleButtons(), dt apart
LoopButtons ==
    \E dt \in ButtonsSteps, up \in Levels, dn \in Levels :
        /\ now[1] = 0 /\ now[2] + dt <= MaxButtonsElapsed
        /\ handleButtons(now, up, dn)
        /\ now' = Add32(now, dt)
        /\ op' = "handleButtons"
        /\ UNCHANGED <<pc, _minVal, _maxVal, _centerVal, _deadzone, _invertX,
                       _invertY, _debugMode, _currentX, _currentY, _currentSwitch,
                       _currentPosition, _previousPosition, _previousSwitch,
                       _callback, _lastSwitchTime, _lastPositionTime,
                       displayOffset, maxDisplayOffset, fired, poll, history,
                       drops, sensorTemperatures, sensorNames, preferences,
                       lastModbusUpdate, trace>>

\* loop() around the wrap of millis(): held-up iterations until the clock is
\* in the last 64K of its range, then short iterations across the wrap
LoopWrap ==
    \/ \E dt \in WrapHolds, s \in WrapHoldSamples :
           /\ now[1] < Half - 1
           /\ now[1] > 0 \/ now[2] >= SplashDelay + ReadyDelay
           /\ LoopBody(dt, s[1], s[2], FALSE, Readings)
           /\ UNCHANGED trace
    \/ \E dt \in Steps, s \in WrapSamples, switchPressed \in BOOLEAN :
           /\ now[1] = Half - 1 \/ (now[1] = 0 /\ now[2] + dt <= MaxWrapElapsed)
           /\ LoopBody(dt, s[1], s[2], switchPressed, Readings)
           /\ UNCHANGED trace

Next == Setup \/ Loop

Spec == Init /\ [][Next]_vars

NextScroll == Setup \/ LoopScroll

SpecScroll == Init /\ [][NextScroll]_vars

NextTrace == Setup \/ LoopTrace

SpecTrace == Init /\ [][NextTrace]_vars

NextPure ==
    \/ Setup
    \/ LoopPure
    \/ \E enabled \in BOOLEAN : setDebugMode(enabled)

SpecPure == Init /\ [][NextPure]_vars

NextRegister == Setup \/ LoopRegister \/ Register

SpecRegister == Init /\ [][NextRegister]_vars

NextTasks == Setup \/ TaskRefresh \/ TaskUpdate \/ HttpPost

SpecTasks == Init /\ [][NextTasks]_vars

NextLive == Setup \/ LoopLive

\* the Arduino core calls setup() once and then loop() again and again
SpecLive == Init /\ [][NextLive]_vars /\ WF_vars(Setup) /\ WF_vars(LoopLive)

NextButtons == LoopButtons

SpecButtons == Init /\ [][NextButtons]_vars

NextWrap == Setup \/ LoopWrap

SpecWrap == Init /\ [][NextWrap]_vars

NextNames == Setup \/ Rename

SpecNames == Init /\ [][NextNames]_vars

NextClassify ==
    \/ Setup
    \/ LoopClassify
    \/ \E c \in Calibrations : setThresholds(c[1], c[2], c[3], c[4])
    \/ \E invert \in BOOLEAN : setInvertX(invert)
    \/ \E invert \in BOOLEAN : setInvertY(invert)

SpecClassify == Init /\ [][NextClassify]_vars

NextFirmware ==
    \/ Setup
    \/ LoopFirmware
    \/ \E c \in FirmwareCalibrations : setThresholds(c[1], c[2], c[3], c[4])
    \/ \E invert \in BOOLEAN : setInvertX(invert)
    \/ \E invert \in BOOLEAN : setInvertY(invert)
    \/ HttpPost
    \/ HttpGetRoot
    \/ HttpGetSensordata

SpecFirmware == Init /\ [][NextFirmware]_vars

TypeOK ==
    /\ pc \in {"boot", "loop", "update"}
    /\ now \in (0..(Half - 1)) \X (0..(Half - 1))
    /\ _previousPosition \in JoystickPosition
    /\ _currentPosition \in JoystickPosition
    /\ _previousSwitch \in BOOLEAN /\ _currentSwitch \in BOOLEAN
    /\ displayOffset \in Int
    /\ Len(fired) <= 2
    /\ currentIndex \in 0..255
    /\ lastDebounce \in (0..(Half - 1)) \X (0..(Half - 1))
    /\ press.up \in Levels /\ press.dn \in Levels

----------------------------------------------------------------------------
(* Observations of the latest update() used by the properties *)

\* the position callbacks it invoked
PosFired == SelectSeq(fired, LAMBDA c : c.ev \in JoystickPosition)

\* the button callbacks it invoked
SwFired == SelectSeq(fired, LAMBDA c : c.ev = "Switch")

\* it read a position other than the stable one
PosDiffers == poll.valid /\ poll.newPosition # poll._previousPosition

\* it read a button value other than the stable one
SwDiffers == poll.valid /\ poll.switchPressed # poll._previousSwitch

\* milliseconds between the last confirmed position change and it
PosElapsed == Sub32(poll.currentTime, poll._lastPositionTime)

\* milliseconds between the last confirmed button change and it
SwElapsed == Sub32(poll.currentTime, poll._lastSwitchTime)

\* it called the callback h
Called(h) == \E i \in 1..Len(fired) : fired[i].cb = h

----------------------------------------------------------------------------
(* C1: after any sequence of scrollUp()/scrollDown() calls the offset is   *)
(* at most maxOffset = max(0, itemCount - visibleRows), 4 for 8 sensors    *)
(* and 4 rows.  As claimed, this fails: scrollDown() admits four more      *)
(* offsets for the menu lines.                                             *)
C1_OffsetAtMostMaxOffset ==
    pc = "loop" => displayOffset <= max(0, NUM_SENSORS - LCD_ROWS)

(* C1, amended: the offset is at most max(0, NUM_SENSORS - LCD_ROWS) + 4,  *)
(* that is 8, and scrollDown() at 8 leaves it at 8.                        *)
C1_OffsetAtMostMenuEnd ==
    /\ displayOffset <= max(0, NUM_SENSORS - LCD_ROWS) + 4
    /\ (Called("onJoystickDown") /\ poll.displayOffset = 8) => displayOffset = 8

\* scrollDown() was called at the last offset and left it there
C1_Witness ==
    Called("onJoystickDown") /\ poll.displayOffset = 8 /\ displayOffset = 8

(* C2: the offset is never negative, and scrollUp() at offset 0 leaves it  *)
(* at 0.                                                                   *)
C2_OffsetNonNegative ==
    /\ displayOffset >= 0
    /\ (Called("onJoystickUp") /\ poll.displayOffset = 0) => displayOffset = 0

\* scrollUp() was called at offset 0
C2_Witness ==
    Called("onJoystickUp") /\ poll.displayOffset = 0 /\ displayOffset = 0

(* C3: two confirmed transitions of one channel are more than 50 ms apart, *)
(* and a differing reading exactly 50 ms after the last confirmed change   *)
(* of its channel confirms nothing.                                        *)
C3_ConfirmedApart ==
    /\ Len(history.position) = 2 =>
          Gt32(Sub32(history.position[2], history.position[1]), 50)
    /\ Len(history.button) = 2 =>
          Gt32(Sub32(history.button[2], history.button[1]), 50)
    /\ (PosDiffers /\ PosElapsed = U32(50)) =>
          (PosFired = << >> /\ _previousPosition = poll._previousPosition)
    /\ (SwDiffers /\ SwElapsed = U32(50)) =>
          (SwFired = << >> /\ _previousSwitch = poll._previousSwitch)

\* both channels have had two confirmed transitions, 51 ms apart
C3_Witness ==
    /\ Len(history.position) = 2
    /\ Sub32(history.position[2], history.position[1]) = U32(51)
    /\ Len(history.button) = 2
    /\ Sub32(history.button[2], history.button[1]) = U32(51)

(* C4: a poll whose position differs from the stable one within the        *)
(* debounce window invokes no position handler and leaves the stable       *)
(* position and its timestamp unchanged.                                   *)
C4_DroppedPositionReading ==
    (PosDiffers /\ ~Gt32(PosElapsed, 50)) =>
        /\ PosFired = << >>
        /\ _previousPosition = poll._previousPosition
        /\ _lastPositionTime = poll._lastPositionTime

\* a differing position was read inside the window, after a confirmed change
C4_Witness ==
    /\ PosDiffers /\ ~Gt32(PosElapsed, 50)
    /\ Len(history.position) = 1
    /\ drops.position = 2

(* C5: a poll whose position differs from the stable one more than 50 ms   *)
(* after the last confirmed change invokes the handler of the new position *)
(* and makes it the stable position, however many readings were dropped    *)
(* before.                                                                 *)
C5_RecoveredPositionReading ==
    (PosDiffers /\ Gt32(PosElapsed, 50)) =>
        /\ Len(PosFired) = 1
        /\ PosFired[1].ev = poll.newPosition
        /\ PosFired[1].cb = _callback[poll.newPosition]
        /\ _previousPosition = poll.newPosition

\* a position was confirmed after two differing readings had been dropped
C5_Witness ==
    /\ PosDiffers /\ Gt32(PosElapsed, 50)
    /\ poll.drops.position = 2
    /\ Len(history.position) = 2
    /\ _previousPosition = poll.newPosition

(* C6: when update() confirms a transition, the dispatcher already holds   *)
(* the new stable value and timestamp at the moment the handler is         *)
(* invoked.  As claimed, this fails: the handler runs first.               *)
C6_CommittedBeforeHandler ==
    \A i \in 1..Len(fired) :
        IF fired[i].ev = "Switch"
        THEN /\ fired[i].seen._previousSwitch = TRUE
             /\ fired[i].seen._lastSwitchTime = poll.currentTime
        ELSE /\ fired[i].seen._previousPosition = fired[i].ev
             /\ fired[i].seen._lastPositionTime = poll.currentTime

(* C6, amended: the handler of a confirmed transition is invoked while the *)
(* dispatcher still holds the stable value and timestamp of before the     *)
(* transition; the new ones are stored after it has returned, so they are  *)
(* in place when update() returns.                                         *)
C6_CommittedAfterHandler ==
    \A i \in 1..Len(fired) :
        IF fired[i].ev = "Switch"
        THEN /\ fired[i].seen._previousSwitch = poll._previousSwitch
             /\ fired[i].seen._previousSwitch = FALSE
             /\ fired[i].seen._lastSwitchTime = poll._lastSwitchTime
             /\ _previousSwitch = TRUE
             /\ _lastSwitchTime = poll.currentTime
        ELSE /\ fired[i].seen._previousPosition = poll._previousPosition
             /\ fired[i].seen._previousPosition # fired[i].ev
             /\ fired[i].seen._lastPositionTime = poll._lastPositionTime
             /\ _previousPosition = fired[i].ev
             /\ _lastPositionTime = poll.currentTime

\* one update() invoked the button handler and a position handler, the
\* latter some time after an earlier confirmed change of the position
C6_Witness ==
    /\ Len(fired) = 2
    /\ Len(history.position) = 2
    /\ poll._lastPositionTime # poll.currentTime
    /\ poll._lastSwitchTime # poll.currentTime

(* C7: the button handler is invoked only on a confirmed edge to pressed;  *)
(* a confirmed release stores the new stable button value and timestamp    *)
(* and invokes no handler.                                                 *)
C7_OnlyPressesFire ==
    /\ SwFired # << >> =>
          /\ poll.switchPressed /\ ~poll._previousSwitch
          /\ Gt32(SwElapsed, 50)
          /\ _previousSwitch = TRUE
    /\ (poll.valid /\ ~poll.switchPressed /\ poll._previousSwitch
        /\ Gt32(SwElapsed, 50)) =>
          /\ SwFired = << >>
          /\ _previousSwitch = FALSE
          /\ _lastSwitchTime = poll.currentTime

\* a release was confirmed
C7_Witness ==
    /\ poll.valid /\ ~poll.switchPressed /\ poll._previousSwitch
    /\ Gt32(SwElapsed, 50)
    /\ _previousSwitch = FALSE
    /\ Len(history.button) = 2

(* C8: a poll whose button reading differs from the stable one inside the  *)
(* debounce window changes no button state: stable value, timestamp and    *)
(* the value isSwitchPressed() reports.  As claimed, this fails: the       *)
(* reported value is the raw reading.                                      *)
C8_DroppedButtonReadingIgnored ==
    (SwDiffers /\ ~Gt32(SwElapsed, 50)) =>
        /\ SwFired = << >>
        /\ _previousSwitch = poll._previousSwitch
        /\ _lastSwitchTime = poll._lastSwitchTime
        /\ _currentSwitch = poll._currentSwitch

(* C8, amended: such a poll invokes no button handler and leaves the       *)
(* stable button value and its timestamp unchanged, while isSwitchPressed()*)
(* reports the raw reading of the poll.                                    *)
C8_DroppedButtonReading ==
    (SwDiffers /\ ~Gt32(SwElapsed, 50)) =>
        /\ SwFired = << >>
        /\ _previousSwitch = poll._previousSwitch
        /\ _lastSwitchTime = poll._lastSwitchTime
        /\ _currentSwitch = poll.switchPressed

\* a differing button reading was dropped and changed the reported value
C8_Witness ==
    /\ SwDiffers /\ ~Gt32(SwElapsed, 50)
    /\ Len(history.button) = 1
    /\ _currentSwitch # poll._currentSwitch
    /\ _currentSwitch # _previousSwitch

(* C9: a confirmed position transition invokes exactly one handler, the    *)
(* one registered for the new position, also when that is Center and also  *)
(* when the stick goes from one direction straight to another.             *)
C9_OneHandlerOfNewPosition ==
    (poll.valid /\ _previousPosition # poll._previousPosition) =>
        /\ Len(PosFired) = 1
        /\ PosFired[1].ev = _previousPosition
        /\ PosFired[1].ev = poll.newPosition
        /\ PosFired[1].cb = Registered[poll.newPosition]

\* the stick came back to Center after it had gone from one direction
\* straight to another
C9_Witness ==
    /\ poll.valid /\ poll._previousPosition # JOY_CENTER
    /\ _previousPosition = JOY_CENTER
    /\ Called("onJoystickCenter")
    /\ Len(history.position) = 2
    /\ displayOffset = 1

(* C10: one update() invokes at most one position handler and at most one  *)
(* button handler.                                                         *)
C10_AtMostOneEach ==
    Len(PosFired) <= 1 /\ Len(SwFired) <= 1 /\ Len(fired) <= 2

\* one update() invoked the button handler and then a direction's handler
C10_Witness ==
    /\ Len(fired) = 2
    /\ fired[1].ev = "Switch"
    /\ fired[2].ev \in JoystickPosition \ {JOY_CENTER}

(* C11: a poll whose position equals the stable one invokes no position   *)
(* handler and leaves the stable position and its timestamp unchanged,     *)
(* however long the stick has been held: no auto-repeat.                   *)
C11_NoAutoRepeat ==
    (poll.valid /\ poll.newPosition = poll._previousPosition) =>
        /\ PosFired = << >>
        /\ _previousPosition = poll._previousPosition
        /\ _lastPositionTime = poll._lastPositionTime
        /\ displayOffset = poll.displayOffset

\* the stick was still held Down more than 50 ms after Down was confirmed
C11_Witness ==
    /\ poll.valid /\ poll.newPosition = JOY_DOWN
    /\ poll._previousPosition = JOY_DOWN
    /\ Gt32(PosElapsed, 50)
    /\ history.position # << >>
    /\ displayOffset = 1

(* C13: at startup the stable position is Center and the stable button is  *)
(* up, so a first poll with the stick in the deadzone and the button up    *)
(* invokes no handler and changes no dispatcher state.                     *)
C13_StartupState ==
    /\ ~poll.valid =>
          /\ _previousPosition = JOY_CENTER /\ _currentPosition = JOY_CENTER
          /\ _previousSwitch = FALSE /\ _currentSwitch = FALSE
    /\ (poll.valid /\ history = [position |-> << >>, button |-> << >>]
        /\ drops = [position |-> 0, button |-> 0]
        /\ poll.newPosition = JOY_CENTER /\ ~poll.switchPressed) =>
          /\ fired = << >>
          /\ _previousPosition = JOY_CENTER /\ _currentPosition = JOY_CENTER
          /\ _previousSwitch = FALSE /\ _currentSwitch = FALSE
          /\ _lastPositionTime = U32(0) /\ _lastSwitchTime = U32(0)
          /\ displayOffset = 0

\* the first poll found the stick in the deadzone and the button up
C13_Witness ==
    /\ poll.valid /\ poll.currentTime = U32(3000)
    /\ poll.newPosition = JOY_CENTER /\ ~poll.switchPressed
    /\ fired = << >>
    /\ history = [position |-> << >>, button |-> << >>]

(* C14: every scrollUp() and scrollDown() call is followed by a redraw of  *)
(* the display, also when the offset is at its bound and does not move.    *)
C14_ScrollRedraws ==
    (Called("onJoystickUp") \/ Called("onJoystickDown")) =>
        (lcd.drawn /\ lcd.offset = displayOffset)

(* C15: scrollUp() decreases the offset by exactly 1 when it is above 0,   *)
(* scrollDown() increases it by exactly 1 when it is below                 *)
(* max(0, itemCount - visibleRows), and no call moves it by more than 1.   *)
C15_StepOfOne ==
    /\ (Called("onJoystickUp") /\ poll.displayOffset > 0) =>
          displayOffset = poll.displayOffset - 1
    /\ (Called("onJoystickDown")
        /\ poll.displayOffset < max(0, NUM_SENSORS - LCD_ROWS)) =>
          displayOffset = poll.displayOffset + 1
    /\ poll.valid => abs(displayOffset - poll.displayOffset) <= 1

\* scrollDown() moved the offset from 3 to 4
C15_Witness ==
    /\ Called("onJoystickDown")
    /\ poll.displayOffset = 3 /\ displayOffset = 4

(* C16: a confirmed transition to Up calls scrollUp() exactly once and one *)
(* to Down calls scrollDown() exactly once; transitions to Left, Right and *)
(* Center and button presses leave the offset unchanged.                   *)
C16_UpDownScroll ==
    poll.valid =>
        IF _previousPosition # poll._previousPosition /\ _previousPosition = JOY_UP
        THEN /\ Len(PosFired) = 1 /\ PosFired[1].cb = "onJoystickUp"
             /\ displayOffset = IF poll.displayOffset > 0
                                THEN poll.displayOffset - 1 ELSE poll.displayOffset
        ELSE IF _previousPosition # poll._previousPosition
                /\ _previousPosition = JOY_DOWN
        THEN /\ Len(PosFired) = 1 /\ PosFired[1].cb = "onJoystickDown"
             /\ displayOffset = IF poll.displayOffset < 8
                                THEN poll.displayOffset + 1 ELSE poll.displayOffset
        ELSE /\ ~Called("onJoystickUp") /\ ~Called("onJoystickDown")
             /\ displayOffset = poll.displayOffset

\* a button press and a transition to Left in one poll left the offset at 1
C16_Witness ==
    /\ Len(fired) = 2
    /\ fired[1].cb = "onJoystickSwitch" /\ fired[2].cb = "onJoystickLeft"
    /\ poll.displayOffset = 1 /\ displayOffset = 1

\* the callbacks of the calls f, in order
Callbacks(f) == [i \in 1..Len(f) |-> f[i].cb]

\* the first three polls read (2000, 2000), (2600, 2000) and (2600, 2000)
\* with the button up, at t0, t0 + 60 and t0 + 70
Scenario ==
    /\ Len(trace) >= 3
    /\ trace[1].x = 2000 /\ trace[1].y = 2000 /\ ~trace[1].switchPressed
    /\ trace[2].x = 2600 /\ trace[2].y = 2000 /\ ~trace[2].switchPressed
    /\ trace[3].x = 2600 /\ trace[3].y = 2000 /\ ~trace[3].switchPressed
    /\ Sub32(trace[2].t, trace[1].t) = U32(60)
    /\ Sub32(trace[3].t, trace[1].t) = U32(70)

(* C12: with calibration 0, 4095, 2000, 500 the samples (2000, 2000) at    *)
(* t0, (2600, 2000) at t0 + 60 and (2600, 2000) at t0 + 70, button up,     *)
(* invoke the Right handler exactly once, at the second sample, invoke no  *)
(* other handler and end with the stable position Right.                   *)
C12_Scenario ==
    Scenario =>
        /\ Callbacks(trace[1].fired) = << >>
        /\ trace[1].stable = JOY_CENTER
        /\ Callbacks(trace[2].fired) = << "onJoystickRight" >>
        /\ trace[2].fired[1].ev = JOY_RIGHT
        /\ trace[2].stable = JOY_RIGHT
        /\ Callbacks(trace[3].fired) = << >>
        /\ trace[3].stable = JOY_RIGHT

\* the three samples of the scenario have been polled
C12_Witness ==
    /\ Scenario
    /\ Len(trace) = 3
    /\ _previousPosition = JOY_RIGHT
    /\ poll.cal.minVal = 0 /\ poll.cal.maxVal = 4095
    /\ poll.cal.centerVal = 2000 /\ poll.cal.deadzone = 500

\* the distances from the center of the sample of the latest update(), after
\* the inversion configured when it was taken
PollDeltaX ==
    (IF poll.cal.invertX THEN Invert(poll.x, poll.cal.minVal, poll.cal.maxVal)
     ELSE poll.x)
        - poll.cal.centerVal

PollDeltaY ==
    (IF poll.cal.invertY THEN Invert(poll.y, poll.cal.minVal, poll.cal.maxVal)
     ELSE poll.y)
        - poll.cal.centerVal

\* the sample of the latest update() lies strictly inside the deadzone
PollInDeadzone ==
    /\ abs(PollDeltaX) < poll.cal.deadzone
    /\ abs(PollDeltaY) < poll.cal.deadzone

\* the latest update() ran with center 2000, deadzone 500 and X not inverted
PollFirmwareCal ==
    /\ poll.cal.minVal = 0 /\ poll.cal.maxVal = 4095
    /\ poll.cal.centerVal = 2000 /\ poll.cal.deadzone = 500
    /\ ~poll.cal.invertX

(* C18: calculatePosition() returns Center exactly when both distances     *)
(* from the center are strictly below the deadzone: with center 2000 and   *)
(* deadzone 500 the sample (2499, 2000) is Center and (2500, 2000) is      *)
(* Right.                                                                  *)
C18_StrictDeadzone ==
    poll.valid =>
        /\ (poll.newPosition = JOY_CENTER) <=> PollInDeadzone
        /\ (PollFirmwareCal /\ poll.x = 2499 /\ poll.y = 2000)
               => poll.newPosition = JOY_CENTER
        /\ (PollFirmwareCal /\ poll.x = 2500 /\ poll.y = 2000)
               => poll.newPosition = JOY_RIGHT

\* the sample (2500, 2000), on the boundary of the deadzone, was classified
C18_Witness ==
    /\ poll.valid /\ PollFirmwareCal
    /\ poll.x = 2500 /\ poll.y = 2000
    /\ PollDeltaX = 500
    /\ _currentPosition = JOY_RIGHT

\* the sample of the latest update() is outside the deadzone and equally far
\* from the center on both axes
PollTie == ~PollInDeadzone /\ abs(PollDeltaX) = abs(PollDeltaY)

(* C19: outside the deadzone a sample equally far from the center on both  *)
(* axes is classified on the Y axis, never as Left or Right: distances     *)
(* 300 and 300 with deadzone 200 give Up.                                  *)
C19_TieTakesY ==
    (poll.valid /\ PollTie) =>
        /\ poll.newPosition \in {JOY_UP, JOY_DOWN}
        /\ (PollDeltaX = 300 /\ PollDeltaY = 300 /\ poll.cal.deadzone = 200)
               => poll.newPosition = JOY_UP

\* a sample 300 from the center on both axes was classified with deadzone 200
C19_Witness ==
    /\ poll.valid /\ PollTie
    /\ PollDeltaX = 300 /\ PollDeltaY = 300 /\ poll.cal.deadzone = 200
    /\ _currentPosition = JOY_UP

(* C20: outside the deadzone calculatePosition() returns the direction of  *)
(* the axis with the larger distance, by sign: Right or Left when X is     *)
(* strictly larger, otherwise Up or Down; every sample gets one of the     *)
(* five positions.                                                         *)
C20_DominantAxis ==
    poll.valid =>
        /\ poll.newPosition \in JoystickPosition
        /\ ~PollInDeadzone =>
            /\ (abs(PollDeltaX) > abs(PollDeltaY) /\ PollDeltaX > 0)
                   => poll.newPosition = JOY_RIGHT
            /\ (abs(PollDeltaX) > abs(PollDeltaY) /\ PollDeltaX < 0)
                   => poll.newPosition = JOY_LEFT
            /\ (abs(PollDeltaX) <= abs(PollDeltaY) /\ PollDeltaY > 0)
                   => poll.newPosition = JOY_UP
            /\ (abs(PollDeltaX) <= abs(PollDeltaY) /\ PollDeltaY < 0)
                   => poll.newPosition = JOY_DOWN

\* a sample farther from the center on Y than on X, below it, was classified
C20_Witness ==
    /\ poll.valid /\ ~PollInDeadzone
    /\ abs(PollDeltaX) < abs(PollDeltaY) /\ PollDeltaY < 0 /\ PollDeltaX > 0
    /\ _currentPosition = JOY_DOWN

\* the operations that are neither setup() nor an iteration of loop()
Bystanders ==
    {"setThresholds", "setInvertX", "setInvertY", "post 400 json", "post 400 id",
     "post 400 name", "post 200", "get /", "get /api/v1/sensordata"}

\* the step is an iteration of loop() whose update() called neither
\* onJoystickUp() nor onJoystickDown()
LoopWithoutScroll ==
    /\ op' = "loop"
    /\ \A i \in 1..Len(fired') : fired'[i].cb \notin {"onJoystickUp", "onJoystickDown"}

(* C17: displayOffset is written only by scrollUp() and scrollDown() run   *)
(* as joystick callbacks: an iteration of loop() that calls neither, with  *)
(* or without a sensor poll, and every calibration setter and HTTP request *)
(* handler leave displayOffset and maxDisplayOffset as they were.          *)
C17_OnlyHandlersScroll ==
    [][ /\ (op' \in Bystanders \/ LoopWithoutScroll)
            => UNCHANGED <<displayOffset, maxDisplayOffset>>
        /\ op' = "loop" => UNCHANGED maxDisplayOffset
        /\ displayOffset' # displayOffset
            => /\ op' = "loop"
               /\ \E i \in 1..Len(fired') :
                      fired'[i].cb \in {"onJoystickUp", "onJoystickDown"} ]_vars

\* a sensor was renamed and displayed while the display was scrolled down
C17_Witness ==
    /\ op = "post 200"
    /\ displayOffset = 1 /\ maxDisplayOffset = 4
    /\ sensorNames[0] = <<"A">>
    /\ lcd = updateDisplay(1)
    /\ sensorTemperatures = Readings

\* calculatePosition() of the sample (x, y) under the calibration of the
\* latest update(), with the inversions invX and invY
PollClassify(x, y, invX, invY) ==
    calculatePosition(x, y, poll.cal.minVal, poll.cal.maxVal, poll.cal.centerVal,
                      poll.cal.deadzone, invX, invY)

(* C21: a sample classified with invertX set gets the position that the    *)
(* sample maxVal - (x - minVal) + minVal gets with invertX clear, under    *)
(* the same calibration; likewise for invertY and y.                       *)
C21_InversionAsReflection ==
    poll.valid =>
        /\ poll.cal.invertX =>
               poll.newPosition =
                   PollClassify(poll.cal.maxVal - (poll.x - poll.cal.minVal)
                                    + poll.cal.minVal,
                                poll.y, FALSE, poll.cal.invertY)
        /\ poll.cal.invertY =>
               poll.newPosition =
                   PollClassify(poll.x,
                                poll.cal.maxVal - (poll.y - poll.cal.minVal)
                                    + poll.cal.minVal,
                                poll.cal.invertX, FALSE)

\* a sample was classified with both axes inverted and a range that does not
\* start at zero
C21_Witness ==
    /\ poll.valid /\ poll.cal.invertX /\ poll.cal.invertY
    /\ poll.cal.minVal = 1200
    /\ poll.x = 2500 /\ poll.y = 1500
    /\ _currentPosition = JOY_UP

(* C22: with a deadzone of 0 no sample is classified as Center, the sample *)
(* at the center on both axes included; every sample gets a direction.     *)
C22_ZeroDeadzone ==
    (poll.valid /\ poll.cal.deadzone = 0) =>
        poll.newPosition \in {JOY_LEFT, JOY_RIGHT, JOY_UP, JOY_DOWN}

\* the sample at the center on both axes was classified with deadzone 0
C22_Witness ==
    /\ poll.valid /\ poll.cal.deadzone = 0
    /\ PollDeltaX = 0 /\ PollDeltaY = 0
    /\ _currentPosition = JOY_DOWN

(* C24: a calibration that violates minVal < centerVal < maxVal or         *)
(* deadzone < max(centerVal - minVal, maxVal - centerVal) is rejected and  *)
(* the previous calibration stays in effect, so the calibration in effect  *)
(* always satisfies both.                                                  *)
C24_InvalidCalibrationRejected ==
    /\ _minVal < _centerVal /\ _centerVal < _maxVal
    /\ _deadzone < max(_centerVal - _minVal, _maxVal - _centerVal)

\* the step is a call of one of the calibration setters
CalibrationStep == op' \in {"setThresholds", "setInvertX", "setInvertY"}

(* C25: setThresholds(), setInvertX() and setInvertY() leave the stable    *)
(* position, the stable button, both timestamps and the six callbacks as   *)
(* they were and invoke no callback: the scroll offset and the record of   *)
(* the calls of the latest update() stay the same.                         *)
C25_CalibrationFrame ==
    [][CalibrationStep =>
           UNCHANGED <<_previousPosition, _previousSwitch, _lastPositionTime,
                       _lastSwitchTime, _callback, _currentPosition,
                       _currentSwitch, fired, displayOffset, lcd>>]_vars

\* the deadzone was changed after an update() had confirmed Right
C25_Witness ==
    /\ op = "setThresholds"
    /\ poll.valid /\ poll.newPosition = JOY_RIGHT
    /\ _previousPosition = JOY_RIGHT
    /\ _lastPositionTime = poll.currentTime
    /\ Len(fired) = 1
    /\ _deadzone # poll.cal.deadzone

\* polls i and j of the trace were given the same sample and calibration
SameInputs(i, j) ==
    /\ trace[i].x = trace[j].x /\ trace[i].y = trace[j].y
    /\ trace[i].cal = trace[j].cal

(* C23: calculatePosition() depends on the raw sample and the calibration  *)
(* only: two update() calls given the same sample and calibration compute  *)
(* the same position, whatever the stable position, the stable button, the *)
(* timestamps and the debug mode are when they run.                        *)
C23_ClassifyPure ==
    \A i, j \in 1..Len(trace) :
        SameInputs(i, j) => trace[i].newPosition = trace[j].newPosition

\* the same sample was classified as Right twice, the second time with
\* another stable position, stable button, timestamps and debug mode
C23_Witness ==
    /\ Len(trace) >= 2
    /\ SameInputs(1, 2)
    /\ trace[1].newPosition = JOY_RIGHT /\ trace[2].newPosition = JOY_RIGHT
    /\ trace[1].before._previousPosition # trace[2].before._previousPosition
    /\ trace[1].before._previousSwitch # trace[2].before._previousSwitch
    /\ trace[1].before._lastPositionTime # trace[2].before._lastPositionTime
    /\ trace[1].before._lastSwitchTime # trace[2].before._lastSwitchTime
    /\ trace[1].before._debugMode # trace[2].before._debugMode

\* the registrations of the trace for the event ev, in order
RegistrationsOf(ev) == SelectSeq(trace, LAMBDA r : r.ev = ev)

\* the callback registered last for the event ev: by the trace, or by
\* initJoystick() when the trace has none
LastRegistered(ev) ==
    IF RegistrationsOf(ev) = << >> THEN Registered[ev]
    ELSE RegistrationsOf(ev)[Len(RegistrationsOf(ev))].cb

(* C26: a registration replaces the callback of its event and leaves the  *)
(* other five alone: every slot holds the callback registered last for    *)
(* its event, and a confirmed event invokes that callback, never an       *)
(* earlier one.                                                            *)
C26_LastRegistrationWins ==
    pc = "loop" =>
        /\ \A ev \in Events : _callback[ev] = LastRegistered(ev)
        /\ op = "loop" =>
               \A i \in 1..Len(fired) : fired[i].cb = LastRegistered(fired[i].ev)

\* Right was registered twice, and a confirmed Right ran the second callback
C26_Witness ==
    /\ op = "loop"
    /\ trace = << [ev |-> JOY_RIGHT, cb |-> nullptr],
                  [ev |-> JOY_RIGHT, cb |-> "onJoystickDown"] >>
    /\ Callbacks(fired) = << "onJoystickDown" >>
    /\ fired[1].ev = JOY_RIGHT
    /\ displayOffset = 1

\* the latest update() confirmed a position for which no callback is registered
PositionUnhandled ==
    /\ op = "loop" /\ poll.valid
    /\ poll.newPosition # poll._previousPosition
    /\ Gt32(Sub32(poll.currentTime, poll._lastPositionTime), _debounceDelay)
    /\ _callback[poll.newPosition] = nullptr

\* the latest update() confirmed a press while no Switch callback is registered
PressUnhandled ==
    /\ op = "loop" /\ poll.valid
    /\ poll.switchPressed /\ ~poll._previousSwitch
    /\ Gt32(Sub32(poll.currentTime, poll._lastSwitchTime), _debounceDelay)
    /\ _callback["Switch"] = nullptr

(* C27: a confirmed transition whose event has no callback invokes         *)
(* nothing, in particular not the null pointer, and still stores the new   *)
(* stable value and the time of the change.                                *)
C27_NoHandlerNoCall ==
    /\ op = "loop" => \A i \in 1..Len(fired) : fired[i].cb # nullptr
    /\ PositionUnhandled =>
           /\ \A i \in 1..Len(fired) : fired[i].ev = "Switch"
           /\ _previousPosition = poll.newPosition
           /\ _currentPosition = poll.newPosition
           /\ _lastPositionTime = poll.currentTime
    /\ PressUnhandled =>
           /\ \A i \in 1..Len(fired) : fired[i].ev # "Switch"
           /\ _previousSwitch
           /\ _lastSwitchTime = poll.currentTime

\* Right and a press were confirmed by one update() with neither callback
\* registered
C27_Witness ==
    /\ PositionUnhandled /\ PressUnhandled
    /\ poll.newPosition = JOY_RIGHT
    /\ fired = << >>
    /\ _previousPosition = JOY_RIGHT /\ _previousSwitch

(* C28: the dispatcher and the scroll state are used by loop() only: no    *)
(* request handler of the web server reads displayOffset or redraws the    *)
(* display while loop() is inside joystick.update().                       *)
C28_LoopTaskOnly == ~(pc = "update" /\ op = "post 200")

\* poll i of the trace invoked the callback of the button
PressAt(i) == \E k \in 1..Len(trace[i].fired) : trace[i].fired[k].ev = "Switch"

\* poll k of the trace confirmed a release
ReleaseAt(k) == trace[k].before._previousSwitch /\ ~trace[k].stableSwitch

(* C30: between two invocations of the button callback a release is       *)
(* confirmed, so the two are more than two debounce delays apart: a       *)
(* release and a new press inside the window of the first press invoke    *)
(* nothing.                                                                *)
C30_ReleaseBetweenPresses ==
    \A i, j \in 1..Len(trace) :
        (i < j /\ PressAt(i) /\ PressAt(j)) =>
            /\ \E k \in (i + 1)..(j - 1) : ReleaseAt(k)
            /\ Gt32(Sub32(trace[j].t, trace[i].t), 2 * _debounceDelay)

\* a press, its release and a second press were each confirmed
C30_Witness ==
    /\ Len(trace) = 3
    /\ PressAt(1) /\ ReleaseAt(2) /\ PressAt(3)
    /\ _previousSwitch

\* the latest update() read the position P while another one is stable
Pending(P) == op = "loop" /\ poll.newPosition = P /\ _previousPosition # P

\* the latest update() confirmed P and invoked the callback of P
Delivered(P) ==
    /\ op = "loop" /\ _previousPosition = P
    /\ \E i \in 1..Len(fired) : fired[i].ev = P

(* C29: while update() keeps being called with advancing time, a reading  *)
(* P that differs from the stable position and persists is delivered: a   *)
(* later update() invokes the callback of P and makes P the stable        *)
(* position, also when the change was first read inside the window.       *)
C29_PersistentChangeDelivered ==
    \A P \in JoystickPosition :
        Pending(P) ~> (Delivered(P) \/ (op = "loop" /\ poll.newPosition # P))

\* a position dropped inside the window was delivered by a later update()
C29_Witness ==
    /\ Delivered(JOY_LEFT)
    /\ poll.newPosition = JOY_LEFT
    /\ poll._previousPosition = JOY_RIGHT
    /\ poll.drops.position >= 1
    /\ drops.position = 0

\* the position channel after the latest update(), from its own state alone
PositionAlone ==
    IF PosDiffers /\ Gt32(PosElapsed, _debounceDelay)
    THEN [stable |-> poll.newPosition, time |-> poll.currentTime]
    ELSE [stable |-> poll._previousPosition, time |-> poll._lastPositionTime]

\* the button channel after the latest update(), from its own state alone
ButtonAlone ==
    IF SwDiffers /\ Gt32(SwElapsed, _debounceDelay)
    THEN [stable |-> poll.switchPressed, time |-> poll.currentTime]
    ELSE [stable |-> poll._previousSwitch, time |-> poll._lastSwitchTime]

(* C31: the two channels debounce independently. After every update()   *)
(* the stable position and its timestamp are what the position channel    *)
(* alone decides, whatever the button channel did in this update() or     *)
(* shortly before it, and the stable button and its timestamp are what    *)
(* the button channel alone decides: a confirmed edge on one channel      *)
(* changes nothing of the other and neither delays nor suppresses it.     *)
C31_ChannelsIndependent ==
    poll.valid =>
        /\ _previousPosition = PositionAlone.stable
        /\ _lastPositionTime = PositionAlone.time
        /\ _previousSwitch = ButtonAlone.stable
        /\ _lastSwitchTime = ButtonAlone.time

\* a position transition confirmed inside the window of a button edge
C31_Witness ==
    /\ poll.valid
    /\ _previousPosition # poll._previousPosition
    /\ _previousSwitch = poll._previousSwitch
    /\ ~Gt32(SwElapsed, _debounceDelay)
    /\ poll._lastSwitchTime # U32(0)
    /\ _lastSwitchTime = poll._lastSwitchTime

Rows == 0..(LCD_ROWS - 1)

\* the items printed on a row are one sensor line or one menu line
OneItem(items) ==
    /\ Len(items) = 1
    /\ \/ DOMAIN items[1] = {"sensor"} /\ items[1].sensor \in Sensors
       \/ DOMAIN items[1] = {"menu"}

(* C33: for every reachable scroll offset and every display row 0..3 the  *)
(* item index offset + row is in 0..NUM_SENSORS+3, the sensor arrays are  *)
(* read only at indices in 0..NUM_SENSORS-1, and every row shows exactly  *)
(* one thing: a sensor or one of the four menu lines.                     *)
C33_RowsInRange ==
    \A row \in Rows :
        /\ displayOffset + row \in 0..(NUM_SENSORS + 3)
        /\ OneItem(DisplayRow(displayOffset, row))
        /\ lcd.drawn => OneItem(DisplayRow(lcd.offset, row))

\* scrolled to the end: the last row shows the last menu line, and the top
\* row of the offset before showed the last sensor
C33_Witness ==
    /\ displayOffset = NUM_SENSORS
    /\ lcd.drawn /\ lcd.offset = displayOffset
    /\ DisplayRow(displayOffset, LCD_ROWS - 1) = <<[menu |-> "version"]>>
    /\ poll.valid /\ DisplayRow(poll.displayOffset, 0) = <<[sensor |-> NUM_SENSORS - 1]>>

\* the clock value t, taken shortly before or after the wrap of millis(),
\* in milliseconds relative to the wrap
AroundWrap(t) == IF t[1] = Half - 1 THEN t[2] - Half ELSE t[2]

\* millis() has wrapped between the clock value last and the latest update()
WrappedSince(last) == last[1] = Half - 1 /\ poll.currentTime[1] = 0

\* milliseconds that really passed between last and the latest update()
PassedSince(last) == AroundWrap(poll.currentTime) - AroundWrap(last)

(* C34: the debounce test takes the elapsed time modulo 2^32. When the   *)
(* millisecond clock has wrapped since the last confirmed change, a       *)
(* differing reading more than 50 ms after that change is still accepted  *)
(* and one within 50 ms is still dropped, on both channels.               *)
C34_DebounceAcrossWrap ==
    /\ (PosDiffers /\ WrappedSince(poll._lastPositionTime)) =>
           IF PassedSince(poll._lastPositionTime) > _debounceDelay
           THEN _previousPosition = poll.newPosition
                /\ _lastPositionTime = poll.currentTime
           ELSE _previousPosition = poll._previousPosition
                /\ _lastPositionTime = poll._lastPositionTime
    /\ (SwDiffers /\ WrappedSince(poll._lastSwitchTime)) =>
           IF PassedSince(poll._lastSwitchTime) > _debounceDelay
           THEN _previousSwitch = poll.switchPressed
                /\ _lastSwitchTime = poll.currentTime
           ELSE _previousSwitch = poll._previousSwitch
                /\ _lastSwitchTime = poll._lastSwitchTime

\* the first update() after the wrap accepts a position change 51 ms or more
\* after the last one and drops a button edge less than 50 ms after the last
C34_Witness ==
    /\ PosDiffers /\ WrappedSince(poll._lastPositionTime)
    /\ PassedSince(poll._lastPositionTime) > _debounceDelay
    /\ _previousPosition = poll.newPosition
    /\ SwDiffers /\ WrappedSince(poll._lastSwitchTime)
    /\ PassedSince(poll._lastSwitchTime) < _debounceDelay
    /\ _previousSwitch = poll._previousSwitch

\* the names that the calls logged in trace gave to sensor i, in order
RenamesOf(i) == SelectSeq(trace, LAMBDA c : c.sensorIndex = i)

\* the first MAX_SENSOR_NAME_LENGTH characters of name
Stored(name) ==
    [k \in 1..(IF Len(name) < MAX_SENSOR_NAME_LENGTH THEN Len(name)
               ELSE MAX_SENSOR_NAME_LENGTH) |-> name[k]]

(* C35: saveSensorName(i, name) with i outside 0..NUM_SENSORS-1 changes   *)
(* neither the names in memory nor the persistent store; with a valid i   *)
(* it stores the first 16 characters of name under the key of sensor i    *)
(* and in sensorNames[i]. After any sequence of calls each sensor's name  *)
(* in memory is the one the store holds for it (the default name while    *)
(* the store holds none).                                                 *)
C35_NamesPersisted ==
    pc # "boot" =>
        /\ DOMAIN preferences \subseteq Sensors
        /\ DOMAIN sensorNames = Sensors
        /\ \A i \in Sensors :
               /\ sensorNames[i] = getString(preferences, i, DefaultName(i))
               /\ IF RenamesOf(i) = << >>
                  THEN i \notin DOMAIN preferences
                  ELSE /\ i \in DOMAIN preferences
                       /\ preferences[i] =
                              Stored(RenamesOf(i)[Len(RenamesOf(i))].name)
                       /\ Len(preferences[i]) <= MAX_SENSOR_NAME_LENGTH

\* a long name was saved for the last sensor, then calls with the invalid
\* indices -1 and NUM_SENSORS were made
C35_Witness ==
    /\ Len(trace) = 3
    /\ trace[1].sensorIndex = NUM_SENSORS - 1
    /\ Len(trace[1].name) > MAX_SENSOR_NAME_LENGTH
    /\ trace[2].sensorIndex = -1
    /\ trace[3].sensorIndex = NUM_SENSORS
    /\ Len(sensorNames[NUM_SENSORS - 1]) = MAX_SENSOR_NAME_LENGTH
    /\ DOMAIN preferences = {NUM_SENSORS - 1}

\* milliseconds between the accepted press before and the latest handleButtons()
SincePress == Sub32(press.now, press.lastDebounce)

(* C36: in the button-driven firmware currentIndex stays in               *)
(* 0..SENSOR_COUNT-1 after any sequence of handleButtons() calls, each    *)
(* call changes it by at most 1, no change happens less than 150 ms after *)
(* the previous accepted press, Up wins when both buttons are down, and   *)
(* lcdShowCurrentPage() reads sensors[] only below SENSOR_COUNT.          *)
C36_ButtonsKeepIndex ==
    /\ currentIndex \in 0..(SENSOR_COUNT - 1)
    /\ press.valid =>
           /\ currentIndex - press.currentIndex \in {-1, 0, 1}
           /\ (currentIndex # press.currentIndex \/ lastDebounce # press.lastDebounce)
                  => SincePress[1] > 0 \/ SincePress[2] >= ButtonDebounce
           /\ (press.up = LOW /\ press.dn = LOW) =>
                  /\ currentIndex <= press.currentIndex
                  /\ (Ge32(SincePress, ButtonDebounce) /\ press.currentIndex > 0)
                         => currentIndex = press.currentIndex - 1
    /\ \A k \in 1..Len(PageFrom(1, currentIndex)) :
           PageFrom(1, currentIndex)[k] \in 0..(SENSOR_COUNT - 1)
    /\ lcd.drawn => lcd.offset = currentIndex

\* at the last sensor, where the page has one row, both buttons were down
\* and the call went one sensor up
C36_Witness ==
    /\ press.valid /\ press.up = LOW /\ press.dn = LOW
    /\ press.currentIndex = SENSOR_COUNT - 1
    /\ Len(PageFrom(1, press.currentIndex)) = 1
    /\ currentIndex = SENSOR_COUNT - 2
    /\ lastDebounce = press.now

====
